---- MODULE Spec2Model ----
(***************************************************************************)
(* windowd: the dev-server / desktop-shell lifecycle coordinator of        *)
(* bin/cli.ts (main, startVite, waitForServer, openWindow,                 *)
(* createCloseSignalServer, waitForExit, cleanupTempDir,                   *)
(* removeAugmentedViteConfig).                                             *)
(*                                                                         *)
(* Also: the top level and main's dispatch (--version, --help, --init, the *)
(* no-project prompt, scaffold), the files createNwHostApp and             *)
(* createAugmentedViteConfig generate, getTitle of src/lib.ts, and the     *)
(* node-main script of buildNodeMainJs with its close hooks.               *)
(*                                                                         *)
(* Also: tsconfig.json handling (ensureTsConfig, runInit), the icon of the *)
(* window (getIconPath), and the pure functions parseArgs,                 *)
(* hasTypeScriptSource, validateExistingTsConfig of src/lib.ts and         *)
(* resolveId / load of the node-builtins plugin.                           *)
(*                                                                         *)
(* Also: getEphemeralPort's throwaway listener, who holds the dev server's *)
(* port (the dev server, or another local process that took it first),     *)
(* the order of the steps of main and openWindow, and the merge of the     *)
(* user's plugins, fs.allow and resolve.alias in the generated vite config.*)
(*                                                                         *)
(* One action per event-loop callback or per continuation of an await.     *)
(* The environment (dev server, NW.js shell, file system, peers of the     *)
(* close-signal listener) chooses its answers nondeterministically.        *)
(***************************************************************************)
EXTENDS Integers, Sequences, FiniteSets, TLC

\* ---------------------------------------------------------------- bounds

\* sockets a peer may open on the close-signal listener
MaxSockets == 2
\* probes of one readiness poll that deliver a response AND a later error
MaxDoubleDelivery == 1
\* keys a user's nw.manifest defines
MaxUserKeys == 2
\* calls of stopVite on one handle
MaxStopCalls == 3
\* page reloads / navigations inside the open window
MaxReloads == 1
\* tokens of an argument list
MaxArgs == 3
\* levels of directories below the scanned one
MaxTreeDepth == 6
\* pieces of a module id
MaxIdLen == 3

\* ------------------------------------------------------ program constants

\* waitForServer(url, maxAttempts = 40)
maxAttempts == 40
\* node-main: waitForWindow(timeoutMs = 15000)
timeoutMs == 15000
\* node-main: setTimeout(tick, 100)
tickMs == 100

\* ------------------------------------------------------------- outcomes

\* what rmSync(dir, {recursive, force}) can do: succeed or throw with a code
RmOutcomes == {"ok", "EBUSY", "EPERM", "ENOTEMPTY", "EIO"}

\* exit codes the 'exit' event of the shell can carry (null: ended by signal)
ExitCodes == {"0", "1", "null"}

Sockets == 1..MaxSockets

VARIABLES
    pc,             \* where main() stands (which await it is suspended on)
    exitCode,       \* "running", or the process exit code "0" / "1"
    err,            \* the error thrown inside main's try block ("none" if none)
    thrown,         \* the error main() rejected with ("none" if none)
    viteConfig,     \* augmented config temp dir: "none" "created" "removed"
    rmConfigCalls,  \* calls of removeAugmentedViteConfig
    tryEntered,     \* main entered its try block (dev-server + shell phase)
    vite,           \* dev-server subprocess: "none" "running" "exited"
    viteKilled,     \* vite.killed
    viteSignals,    \* SIGTERMs delivered to the dev server
    wfs,            \* waitForServer promise: "idle" "pending" "resolved" "rejected"
    attempts,       \* waitForServer's attempts counter (= probes issued)
    inflight,       \* probes with neither response nor error delivered yet
    responded,      \* probes whose response was delivered, socket still open
    timers,         \* pending setTimeout(attempt, 150)
    doubles,        \* probes that delivered both a response and an error
    okSeen,         \* some probe was answered with a status < 500
    wfsError,       \* message waitForServer rejected with ("none" before)
    cs,             \* close-signal listener: "none" "listening" "stopped"
    resolved,       \* createCloseSignalServer's `resolved` flag
    closedP,        \* the promise `closed`: "pending" "resolved" "rejected"
    resolveCalls,   \* calls of the promise's resolve()
    sock,           \* per socket: "unused" "open" "ended"
    answered,       \* sockets that were written the 204 answer
    hostDir,        \* shell bundle dir: "none" "created" "removed"
    userDataDir,    \* shell profile dir: "none" "created" "removed"
    hostRm,         \* outcome of cleanupTempDir(hostDir): "none" or RmOutcomes
    profileRm,      \* outcome of cleanupTempDir(userDataDir)
    warnings,       \* labels cleanupTempDir warned about
    nw,             \* shell subprocess: "none" "running" "exited" "spawnFailed"
    nwKilled,       \* nw.killed
    nwSignals,      \* SIGTERMs delivered to the shell
    nwExitCode,     \* code of the observed 'exit' event, "none" before
    exitP,          \* waitForExit promise: "none" "pending" "resolved" "rejected"
    raceP,          \* Promise.race: "none" "pending" "resolved" "rejected"
    firstEvent,     \* first of: "signal" received, shell "exit", shell "error"
    lateExit,       \* a shell exit/error observed after the race had settled
    owResult,       \* how openWindow settled: "none" "resolved" "rejected"
    teardowns,      \* runs of openWindow's finally block
    args,           \* parseArgs(): version help init debug title capture artifacts
    project,        \* vite config or index.html in cwd: "unknown" "present" "absent"
    choice,         \* answer to the no-project prompt, "none" before
    scaffoldStatus, \* status of `bun create vite`, "none" before
    installStatus,  \* status of `bun install`, "none" before
    ports,          \* ephemeral ports acquired by getEphemeralPort
    pkg,            \* the project's package.json: readable?, title fields set
    htmlTitle,      \* index.html carries a <title> the regex matches
    nwConfig,       \* windowd-config `nw`: window.title?, chromiumArgs?, manifest keys
    title,          \* the title main / scaffold resolved, "none" before
    windowConfig,   \* title field of createNwHostApp's windowConfig
    manifest,       \* descriptor written to package.json: key -> whose value
    manifestWarnings, \* per key, warnings about an ignored protected override
    injectWarned,   \* the inject_js_start override warning was printed
    userViteConfig, \* the user's vite config: present?, defines cacheDir?
    cacheDir,       \* cacheDir of the generated config: "none" "temp" "user"
    stopCalls,      \* calls of stopVite on the one handle
    js,             \* where the generated node-main script stands
    jsElapsed,      \* ms since waitForWindow started
    signalCloseCalls, \* calls of the script's signalClose()
    captureFiles,   \* screenshot.png + result.json: "none" "written" "failed"
    docHooks,       \* beforeunload / unload listeners are on the page's window
    unloading,      \* the page unloads: "none" "reload" "close" "closed"
    closePosts,     \* signalClose() calls made for the window's close
    reloads,        \* page reloads / navigations so far
    tsconfig,       \* cwd/tsconfig.json: "absent" "user" "template" "created"
    tsSources,      \* hasTypeScriptSource(cwd, 0)
    iconIn,         \* what the icon is resolved from: config, link, files, copy
    icon,           \* window.icon after createNwHostApp's icon step, "none" before
    libPc,          \* the exported function under test: its name, "none", "<name>.done"
    argv,           \* parseArgs: the argument list
    parsed,         \* parseArgs: the Args it returned
    tree,           \* hasTypeScriptSource: nested directories, tree[1] the root
    tsFound,        \* hasTypeScriptSource: its result
    tsFile,         \* validateExistingTsConfig: the file at tsconfigPath
    validation,     \* validateExistingTsConfig: ok, missing (error text left out)
    moduleId,       \* node-builtins plugin: the id resolveId / load is called with
    builtinKeys,    \* Object.keys of the module _require finds for node:fs
    resolvedId,     \* resolveId's result: null, or an id
    loadedId,       \* the id load was called with
    loaded,         \* load's result: null, or the parts of the source text
    steps,          \* what main and openWindow have done so far, in order
    probe,          \* getEphemeralPort's throwaway listener, of the current call
    portHolder,     \* who is bound to the dev server's port: "none" "vite" "other"
    readyBy,        \* who answered the probe that resolved waitForServer
    mergeIn,        \* what the generated vite config merges: user parts, fallbacks
    mergeOut,       \* plugins, fs.allow and resolve.alias it exports
    closeSignalPort \* the channel's port: "none", "same" as the dev server's, "other"

vars == << pc, exitCode, err, thrown, viteConfig, rmConfigCalls, tryEntered, vite,
           viteKilled, viteSignals, wfs, attempts, inflight, responded, timers,
           doubles, okSeen, wfsError, cs, resolved, closedP, resolveCalls, sock, answered,
           hostDir, userDataDir, hostRm, profileRm, warnings, nw, nwKilled,
           nwSignals, nwExitCode, exitP, raceP, firstEvent, lateExit, owResult,
           teardowns, args, project, choice, scaffoldStatus, installStatus,
           ports, pkg, htmlTitle, nwConfig, title, windowConfig, manifest,
           manifestWarnings, injectWarned, userViteConfig, cacheDir, stopCalls,
           js, jsElapsed, signalCloseCalls, captureFiles, docHooks, unloading,
           closePosts, reloads, tsconfig, tsSources, iconIn, icon, libPc, argv, parsed,
           tree, tsFound, tsFile, validation, moduleId, builtinKeys,
           resolvedId, loadedId, loaded, steps, probe, portHolder, readyBy,
           closeSignalPort, mergeIn, mergeOut >>

mainVars   == << pc, exitCode, err, thrown, viteConfig, rmConfigCalls, tryEntered,
                ports >>
viteVars   == << vite, viteKilled, viteSignals >>
probeVars  == << wfs, attempts, inflight, responded, timers, doubles, okSeen,
                wfsError >>
csVars     == << cs, resolved, closedP, resolveCalls, sock, answered >>
dirVars    == << hostDir, userDataDir, hostRm, profileRm, warnings >>
nwVars     == << nw, nwKilled, nwSignals, nwExitCode, exitP >>
raceVars   == << raceP, firstEvent, lateExit, owResult, teardowns >>
flowVars   == << args, project, choice, scaffoldStatus, installStatus >>
unitVars   == << pkg, htmlTitle, nwConfig, title, windowConfig, manifest,
                manifestWarnings, injectWarned, userViteConfig, cacheDir,
                stopCalls >>
hookVars   == << docHooks, unloading, closePosts, reloads >>
jsVars     == << js, jsElapsed, signalCloseCalls, captureFiles, hookVars >>
tsVars     == << tsconfig, tsSources >>
iconVars   == << iconIn, icon >>
fnVars     == << argv, parsed, tree, tsFound, tsFile, validation >>
pluginVars == << moduleId, builtinKeys, resolvedId, loadedId, loaded >>
libVars    == << libPc, fnVars, pluginVars >>
netVars    == << probe, portHolder, readyBy, closeSignalPort >>
mergeVars  == << mergeIn, mergeOut >>
restVars   == << tsVars, iconVars, libVars, steps, netVars, mergeVars >>
otherVars  == << flowVars, unitVars, jsVars, restVars >>
quietVars  == << flowVars, unitVars, jsVars, tsVars, iconVars, libVars,
                 mergeVars >>

\* parseArgs() with no flag given
NoArgs ==
    [ version |-> FALSE, help |-> FALSE, init |-> FALSE, debug |-> FALSE,
      title |-> FALSE, capture |-> FALSE, artifacts |-> FALSE ]

\* what parseArgs() can return (a value flag is TRUE when it was given)
ArgSets ==
    [ version : BOOLEAN, help : BOOLEAN, init : BOOLEAN, debug : BOOLEAN,
      title : BOOLEAN, capture : BOOLEAN, artifacts : BOOLEAN ]

\* keys of the descriptor the coordinator sets, and "extra" for any other key
ManifestKeys ==
    { "name", "main", "single-instance", "node-main", "node-remote", "window",
      "chromium-args", "inject_js_start", "extra" }

\* title fields getTitle reads from package.json, in its order
PkgTitleFields == { "windowd.title", "displayName", "name" }

\* nothing of the run has happened yet
RunIdle ==
    /\ exitCode = "running"
    /\ err = "none"
    /\ thrown = "none"
    /\ viteConfig = "none"
    /\ rmConfigCalls = 0
    /\ tryEntered = FALSE
    /\ vite = "none"
    /\ viteKilled = FALSE
    /\ viteSignals = 0
    /\ wfs = "idle"
    /\ attempts = 0
    /\ inflight = 0
    /\ responded = 0
    /\ timers = 0
    /\ doubles = 0
    /\ okSeen = FALSE
    /\ wfsError = "none"
    /\ cs = "none"
    /\ resolved = FALSE
    /\ closedP = "pending"
    /\ resolveCalls = 0
    /\ sock = [s \in Sockets |-> "unused"]
    /\ answered = {}
    /\ hostDir = "none"
    /\ userDataDir = "none"
    /\ hostRm = "none"
    /\ profileRm = "none"
    /\ warnings = {}
    /\ nw = "none"
    /\ nwKilled = FALSE
    /\ nwSignals = 0
    /\ nwExitCode = "none"
    /\ exitP = "none"
    /\ raceP = "none"
    /\ firstEvent = "none"
    /\ lateExit = FALSE
    /\ owResult = "none"
    /\ teardowns = 0
    /\ steps = << >>
    /\ probe = "none"
    /\ portHolder = "none"
    /\ readyBy = "none"
    /\ closeSignalPort = "none"

\* no project input read, nothing generated from it
UnitIdle ==
    /\ pkg = [ readable |-> FALSE, fields |-> {} ]
    /\ htmlTitle = FALSE
    /\ nwConfig = [ windowTitle |-> FALSE, chromiumArgs |-> FALSE, manifest |-> {} ]
    /\ title = "none"
    /\ windowConfig = "none"
    /\ manifest = [ k \in ManifestKeys |-> "absent" ]
    /\ manifestWarnings = [ k \in ManifestKeys |-> 0 ]
    /\ injectWarned = FALSE
    /\ userViteConfig = [ present |-> FALSE, cacheDir |-> FALSE ]
    /\ cacheDir = "none"
    /\ stopCalls = 0

\* a project without tsconfig.json and without TypeScript sources
TsIdle ==
    /\ tsconfig = "absent"
    /\ tsSources = FALSE

\* extensions a favicon link may carry, and extname(abs).toLowerCase()
LinkExts == { ".png", ".PNG", ".svg" }
toLowerCase(str) ==
    IF str = ".PNG" THEN ".png"
    ELSE IF str \in { "ESNext", "ESNEXT" } THEN "esnext"
    ELSE IF str = "Bundler" THEN "bundler"
    ELSE IF str = "React-JSX" THEN "react-jsx"
    ELSE str

\* `<link rel="icon" href=...>` of index.html as the two regexes see it
NoLink == [ scheme |-> "none", ext |-> ".png", exists |-> FALSE ]
Links == [ scheme : { "data:", "http", "local" }, ext : LinkExts,
           exists : BOOLEAN ] \cup { NoLink }

\* the names getIconPath tries, in its order
FaviconNames == << "favicon.ico", "favicon.png", "favicon.jpg" >>
Favicons == { FaviconNames[i] : i \in 1..Len(FaviconNames) }

\* no icon configured, linked or lying in the project; the copy succeeds
NoIcon == [ config |-> FALSE, link |-> NoLink, root |-> {}, public |-> {},
            copy |-> TRUE ]

IconIdle ==
    /\ iconIn = NoIcon
    /\ icon = "none"

\* no user vite config and no fallback alias; nothing exported yet
NoMerge ==
    [ config |-> FALSE, react |-> FALSE, fallback |-> {},
      plugins |-> [ given |-> FALSE, list |-> << >> ],
      allow |-> [ given |-> FALSE, list |-> << >> ],
      alias |-> [ form |-> "absent", keys |-> {} ] ]

NoExport == [ plugins |-> << >>, allow |-> << >>, alias |-> << >> ]

MergeIdle ==
    /\ mergeIn = NoMerge
    /\ mergeOut = NoExport

\* a parsed number: parseInt gives NaN for text without leading digits
Num(n) == [ nan |-> FALSE, n |-> n ]
NaN == [ nan |-> TRUE, n |-> 0 ]

\* parseArgs' defaults: `result.width ?? 1280`, `result.height ?? 800`, false
\* flags, title / capture / artifacts undefined
defaultWidth == 1280
defaultHeight == 800
DefaultArgs ==
    [ width |-> Num(defaultWidth), height |-> Num(defaultHeight),
      debug |-> FALSE, init |-> FALSE, version |-> FALSE, help |-> FALSE,
      title |-> "undefined", capture |-> "undefined", artifacts |-> "undefined" ]

\* JSON values: strings, booleans, and a missing key
Str(v) == [ t |-> "string", v |-> v ]
Bool(v) == [ t |-> "boolean", v |-> v ]
Undefined == [ t |-> "undefined", v |-> "undefined" ]

\* REQUIRED_TSCONFIG_OPTIONS, in the order of its keys, and
\* REQUIRED_TSCONFIG_TYPES
OptionKeys == << "target", "module", "moduleResolution", "jsx", "noEmit",
                 "skipLibCheck" >>
REQUIRED_TSCONFIG_OPTIONS ==
    [ target |-> Str("ESNext"), module |-> Str("ESNext"),
      moduleResolution |-> Str("Bundler"), jsx |-> Str("react-jsx"),
      noEmit |-> Bool("true"), skipLibCheck |-> Bool("true") ]
REQUIRED_TSCONFIG_TYPES == << "node", "vite/client", "nw.js" >>

\* no tsconfig.json looked at
NoTsFile ==
    [ content |-> "unreadable",
      compilerOptions |-> [ k \in DOMAIN REQUIRED_TSCONFIG_OPTIONS |-> Undefined ],
      types |-> [ array |-> FALSE, items |-> {} ] ]
NoValidation == [ ok |-> FALSE, missing |-> << >> ]

\* a null result of the plugin's hooks
NullId == [ null |-> TRUE, id |-> << >> ]
NullSource ==
    [ null |-> TRUE, requireFn |-> "none", specifier |-> [ literal |-> << >> ],
      defaultExport |-> FALSE, named |-> {} ]

\* no function of lib called, no input chosen
FnIdle ==
    /\ argv = << >>
    /\ parsed = DefaultArgs
    /\ tree = << >>
    /\ tsFound = FALSE
    /\ tsFile = NoTsFile
    /\ validation = NoValidation

\* the plugin's hooks not called
PluginIdle ==
    /\ moduleId = << >>
    /\ builtinKeys = {}
    /\ resolvedId = NullId
    /\ loadedId = << >>
    /\ loaded = NullSource

LibIdle ==
    /\ libPc = "none"
    /\ FnIdle
    /\ PluginIdle

\* nothing but the run is looked at
RestIdle ==
    /\ TsIdle
    /\ IconIdle
    /\ LibIdle
    /\ MergeIdle

\* the shell's node-main script has not started
JsIdle ==
    /\ js = "none"
    /\ jsElapsed = 0
    /\ signalCloseCalls = 0
    /\ captureFiles = "none"
    /\ docHooks = FALSE
    /\ unloading = "none"
    /\ closePosts = 0
    /\ reloads = 0

\* the CLI starts: the flags that end the process at once may come with any
\* other flag; the run flow itself does not branch on the other flags
Init ==
    /\ pc = "top"
    /\ RunIdle
    /\ args \in { a \in ArgSets :
                    \/ a.version \/ a.help \/ a.init
                    \/ a = NoArgs }
    /\ project = "unknown"
    /\ choice = "none"
    /\ scaffoldStatus = "none"
    /\ installStatus = "none"
    /\ ports = 0
    /\ UnitIdle
    /\ JsIdle
    /\ tsconfig \in { "absent", "user" }
    /\ tsSources \in BOOLEAN
    /\ IconIdle
    /\ LibIdle
    /\ MergeIdle

Running == exitCode = "running"

\* ------------------------------------------------------- pure helpers

\* waitForServer's retry test, `attempts < maxAttempts` (both callbacks)
retryAllowed(a) == a < maxAttempts

\* settling a promise: only a pending promise changes state
settle(p, outcome) == IF p = "pending" THEN outcome ELSE p

\* faulty variant: startVite returns without awaiting waitForServer
startViteReturns_NoAwait(w) == w \in {"pending", "resolved"}

\* startVite returns to main only once `await waitForServer(...)` resolved
startViteReturns(w) == w = "resolved"

\* waitForExit's 'exit' listener: resolve on code 0, reject otherwise
waitForExit(code) == IF code = "0" THEN "resolved" ELSE "rejected"

\* faulty variant: a later rejection of waitForExit overrides the settled race
PromiseRace_LateReject(r, e, c) ==
    IF e = "rejected" THEN "rejected"
    ELSE IF r # "pending" THEN r
    ELSE IF e = "resolved" \/ c = "resolved" THEN "resolved"
    ELSE "pending"

\* Promise.race([waitForExit(nw), closeSignal.closed]): the first input to
\* settle settles the race, later settlements are discarded
PromiseRace(r, e, c) ==
    IF r # "pending" THEN r
    ELSE IF e \in {"resolved", "rejected"} THEN e
    ELSE IF c = "resolved" THEN "resolved"
    ELSE "pending"

\* faulty variant: resolveClosed without its `if (resolved) return` guard
resolveClosed_NoGuard(flag) == 1

\* resolveClosed(): number of calls of the promise's resolve() it makes
resolveClosed(flag) == IF flag THEN 0 ELSE 1

\* child.kill('SIGTERM') guarded by `killed`: a signal is delivered only to a
\* child that is still running; kill() on an exited child returns false
killChild(state, killed) ==
    IF killed THEN [killed |-> TRUE, sent |-> 0]
    ELSE IF state = "running" THEN [killed |-> TRUE, sent |-> 1]
    ELSE [killed |-> FALSE, sent |-> 0]

\* faulty variant: stopVite without the `if (vite.killed) return`
stopVite_NoGuard(state, killed) == killChild(state, FALSE)

\* stopVite(vite): if (vite.killed) return; try { vite.kill('SIGTERM') } catch {}
stopVite(state, killed) == killChild(state, killed)

\* faulty variant: the teardown never signals the shell
killNw_Never(state, killed) == [killed |-> killed, sent |-> 0]

\* openWindow's finally: if (!nw.killed) nw.kill('SIGTERM')
killNw(state, killed) == killChild(state, killed)

\* faulty variant: cleanupTempDir rethrows the errors it does not list
cleanupTempDir_Rethrow(code) ==
    [ threw   |-> code \notin {"ok", "EBUSY", "EPERM", "ENOTEMPTY"},
      warned  |-> FALSE,
      removed |-> code = "ok" ]

\* faulty variant: cleanupTempDir warns about every failed deletion
cleanupTempDir_WarnAll(code) ==
    [ threw   |-> FALSE,
      warned  |-> code # "ok",
      removed |-> code = "ok" ]

\* cleanupTempDir(dir, label): rmSync in a try/catch that returns silently on
\* EBUSY / EPERM / ENOTEMPTY and warns on any other error; never rethrows
cleanupTempDir(code) ==
    [ threw   |-> FALSE,
      warned  |-> code \notin {"ok", "EBUSY", "EPERM", "ENOTEMPTY"},
      removed |-> code = "ok" ]

\* removeAugmentedViteConfig(config): a bare rmSync, its error propagates
removeAugmentedViteConfig(code) ==
    [ threw |-> code # "ok", removed |-> code = "ok" ]

\* faulty variant: the config is removed after the try block, not in a finally
finallyRemovesConfig_OnSuccess(e) == e = "none"

\* main's `finally { removeAugmentedViteConfig(viteConfig) }` runs whatever
\* the try block threw
finallyRemovesConfig(e) == TRUE

\* main calls stopVite only after openWindow returned normally
mainStopsVite(e) == e = "none"

\* openWindow's try/finally: the teardown block runs whatever the race did
finallyRuns(r) == r \in {"resolved", "rejected"}

\* ------------------------------------------------- before the run flow

\* faulty variant: only --version ends the process at top level
topLevelExit_VersionOnly(a) == a.version

\* top level: `if (args.version) {...exit(0)}`, `if (args.help) {...exit(0)}`
topLevelExit(a) == a.version \/ a.help

\* main: `if (args.init) { runInit(cwd); process.exit(0); }`
mainInit(a) == a.init

\* faulty variant: the Exit choice is scaffolded like a template
promptExits_Never(c) == FALSE

\* handleNoProject: `if (choice === 'exit') process.exit(0)`
promptExits(c) == c = "exit"

\* faulty variant: the file is written whether or not it exists
ensureTsConfig_Overwrite(t) == "created"

\* ensureTsConfig: `if (existsSync(tsconfigPath)) return;` then writeFileSync
ensureTsConfig(t) == IF t # "absent" THEN t ELSE "created"

\* shouldAutoCreateTsConfig: an existing file, or hasTypeScriptSource(cwd, 0)
shouldAutoCreateTsConfig(t, ts) == IF t # "absent" THEN TRUE ELSE ts

\* main: `if (shouldAutoCreateTsConfig(cwd)) ensureTsConfig(cwd);`
mainTsConfig(t, ts) ==
    IF shouldAutoCreateTsConfig(t, ts) THEN ensureTsConfig(t) ELSE t

\* runInit: without a file ensureTsConfig, with one validate and warn only
runInit(t) == IF t = "absent" THEN ensureTsConfig(t) ELSE t

\* `bun create vite` may bring a tsconfig.json of its own into the directory
afterTemplate(t, tpl) == IF t = "absent" /\ tpl THEN "template" ELSE t

\* scaffold: `if (result.status !== 0) { ...; process.exit(1); }`
scaffoldAborts(status) == status # "0"

\* status of a spawnSync'ed subprocess
SpawnStatus == {"0", "1"}

\* `await main()` at top level rejects: the runtime prints and exits with 1
Fail(e) ==
    /\ pc' = "exited"
    /\ exitCode' = "1"
    /\ thrown' = e

\* process.exit(code)
Exit(code) ==
    /\ pc' = "exited"
    /\ exitCode' = code
    /\ UNCHANGED thrown

\* the module's top level, up to `await main()`
TopLevel ==
    /\ Running /\ pc = "top"
    /\ IF topLevelExit(args)
       THEN Exit("0")
       ELSE /\ pc' = "main"
            /\ UNCHANGED << exitCode, thrown >>
    /\ UNCHANGED << err, viteConfig, rmConfigCalls, tryEntered, ports >>
    /\ UNCHANGED << viteVars, probeVars, csVars, dirVars, nwVars, raceVars >>
    /\ UNCHANGED otherVars

\* main up to `await getEphemeralPort()`: --init, project detection,
\* ensureTsConfig / ensureNwTypes (never fatal), await ensureNwBinary()
MainEntry(found, nwOk) ==
    /\ Running /\ pc = "main"
    /\ IF mainInit(args)
       THEN /\ tsconfig' = runInit(tsconfig)
            /\ Exit("0")
            /\ UNCHANGED project
       ELSE /\ project' = IF found THEN "present" ELSE "absent"
            /\ tsconfig' = IF found THEN mainTsConfig(tsconfig, tsSources)
                           ELSE tsconfig
            /\ IF ~found
               THEN /\ pc' = "prompt"
                    /\ UNCHANGED << exitCode, thrown >>
               ELSE IF nwOk
                    THEN /\ pc' = "getPort"
                         /\ UNCHANGED << exitCode, thrown >>
                    ELSE Fail("nwBinary")
    /\ UNCHANGED << err, viteConfig, rmConfigCalls, tryEntered, ports >>
    /\ UNCHANGED << viteVars, probeVars, csVars, dirVars, nwVars, raceVars >>
    /\ UNCHANGED << args, choice, scaffoldStatus, installStatus, tsSources >>
    /\ UNCHANGED << unitVars, jsVars, iconVars, libVars, steps, netVars, mergeVars >>

\* handleNoProject: the continuation of `await select(...)`
HandleNoProject(c) ==
    /\ Running /\ pc = "prompt"
    /\ choice' = c
    /\ IF promptExits(c)
       THEN Exit("0")
       ELSE /\ pc' = "scaffold"
            /\ UNCHANGED << exitCode, thrown >>
    /\ UNCHANGED << err, viteConfig, rmConfigCalls, tryEntered, ports >>
    /\ UNCHANGED << viteVars, probeVars, csVars, dirVars, nwVars, raceVars >>
    /\ UNCHANGED << args, project, scaffoldStatus, installStatus >>
    /\ UNCHANGED << unitVars, jsVars, restVars >>

\* scaffold up to `await getEphemeralPort()`: `bun create vite` with its
\* status tested, `bun install` with its result dropped, ensureTsConfig,
\* ensureNwTypes, await ensureNwBinary(); the rest of scaffold repeats
\* main's run flow
Scaffold(status, install, tpl, nwOk) ==
    /\ Running /\ pc = "scaffold"
    /\ scaffoldStatus' = status
    /\ IF scaffoldAborts(status)
       THEN /\ Exit("1")
            /\ UNCHANGED << installStatus, tsconfig >>
       ELSE /\ installStatus' = install
            /\ tsconfig' = ensureTsConfig(afterTemplate(tsconfig, tpl))
            /\ IF nwOk
               THEN /\ pc' = "getPort"
                    /\ UNCHANGED << exitCode, thrown >>
               ELSE Fail("nwBinary")
    /\ UNCHANGED << err, viteConfig, rmConfigCalls, tryEntered, ports >>
    /\ UNCHANGED << viteVars, probeVars, csVars, dirVars, nwVars, raceVars >>
    /\ UNCHANGED << args, project, choice, tsSources >>
    /\ UNCHANGED << unitVars, jsVars, iconVars, libVars, steps, netVars, mergeVars >>

\* --------------------------------------------------- getEphemeralPort

\* the ports listen(0) can be given for the close-signal channel, told apart
\* by whether they are the dev server's: that one only when nobody is bound
\* to it
freePorts(holder) ==
    IF holder = "none" THEN { "same", "other" } ELSE { "other" }

\* faulty variant: resolve(port) in the 'listening' handler, right after
\* the call of server.close()
portResolved_OnListening(p) == p \in { "closing", "closed" }

\* the promise of getEphemeralPort is resolved in the callback of
\* server.close(): once the throwaway listener is closed
portResolved(p) == p = "closed"

\* getEphemeralPort, called by main / scaffold (pc "getPort") and by
\* createCloseSignalServer (pc "csPort"): server.listen(0, host) binds a
\* port the system picks, or fails: server.once('error', reject), which
\* rejects the caller's await (main has no catch around either call site)
PortListen(ok) ==
    /\ Running /\ pc \in { "getPort", "csPort" } /\ probe = "none"
    /\ probe' = IF ok THEN "listening" ELSE "failed"
    /\ closeSignalPort' \in IF ok /\ pc = "csPort"
                             THEN freePorts(portHolder) ELSE { closeSignalPort }
    /\ IF ok
       THEN UNCHANGED << pc, exitCode, thrown, err >>
       ELSE IF pc = "getPort"
            THEN Fail("port") /\ UNCHANGED err
            ELSE /\ pc' = "mainTail"
                 /\ err' = "closeSignalPort"
                 /\ UNCHANGED << exitCode, thrown >>
    /\ UNCHANGED << viteConfig, rmConfigCalls, tryEntered, ports >>
    /\ UNCHANGED << viteVars, probeVars, csVars, dirVars, nwVars, raceVars >>
    /\ UNCHANGED << quietVars, steps, portHolder, readyBy >>

\* server.once('listening'): the port is read from server.address() (an
\* AddressInfo for a bound TCP server) and server.close(callback) is called
PortListening ==
    /\ Running /\ probe = "listening"
    /\ probe' = "closing"
    /\ UNCHANGED << mainVars, viteVars, probeVars, csVars, dirVars, nwVars, raceVars >>
    /\ UNCHANGED << quietVars, steps, portHolder, readyBy, closeSignalPort >>

\* the callback of server.close(): the listener is gone; resolve(port)
PortClosed ==
    /\ Running /\ probe = "closing"
    /\ probe' = "closed"
    /\ UNCHANGED << mainVars, viteVars, probeVars, csVars, dirVars, nwVars, raceVars >>
    /\ UNCHANGED << quietVars, steps, portHolder, readyBy, closeSignalPort >>

\* some other process binds the dev server's port while it is free, in the
\* window between the throwaway listener's release and the dev server's bind
OtherBinds ==
    /\ Running /\ pc \in { "createConfig", "loadConfig", "waitForServer" }
    /\ portHolder = "none"
    /\ portHolder' = "other"
    /\ UNCHANGED << mainVars, viteVars, probeVars, csVars, dirVars, nwVars, raceVars >>
    /\ UNCHANGED << quietVars, steps, probe, readyBy, closeSignalPort >>

\* -------------------------------------------------------- main, part 1

\* const port = await getEphemeralPort(): the await returns
GetPort ==
    /\ Running /\ pc = "getPort" /\ portResolved(probe)
    /\ pc' = "createConfig"
    /\ ports' = ports + 1
    /\ steps' = Append(steps, "port")
    /\ UNCHANGED << exitCode, thrown, err, viteConfig, rmConfigCalls, tryEntered >>
    /\ UNCHANGED << viteVars, probeVars, csVars, dirVars, nwVars, raceVars >>
    /\ UNCHANGED << quietVars, netVars >>

\* const viteConfig = createAugmentedViteConfig(cwd): mkdtempSync, then
\* writeFileSync; either may throw, before the try block is entered
CreateAugmentedViteConfig(outcome) ==
    /\ Running /\ pc = "createConfig"
    /\ viteConfig' = IF outcome = "mkdtemp" THEN "none" ELSE "created"
    /\ IF outcome = "ok"
       THEN /\ pc' = "loadConfig"
            /\ UNCHANGED << exitCode, thrown >>
       ELSE Fail("config")
    /\ steps' = IF outcome = "ok" THEN Append(steps, "config") ELSE steps
    /\ UNCHANGED << err, rmConfigCalls, tryEntered >>
    /\ UNCHANGED << viteVars, probeVars, csVars, dirVars, nwVars, raceVars >>
    /\ UNCHANGED << ports, quietVars, netVars >>

\* await loadWindowThisConfig(cwd) (never rejects); getTitle; then the try
\* block: startVite spawns the dev server and waitForServer issues probe 1
StartVite ==
    /\ Running /\ pc = "loadConfig"
    /\ pc' = "waitForServer"
    /\ tryEntered' = TRUE
    /\ vite' = "running"
    /\ wfs' = "pending"
    /\ attempts' = attempts + 1
    /\ inflight' = inflight + 1
    /\ UNCHANGED << exitCode, err, thrown, viteConfig, rmConfigCalls >>
    /\ UNCHANGED << viteKilled, viteSignals, responded, timers, doubles >>
    /\ UNCHANGED << okSeen, wfsError >>
    /\ steps' = Append(steps, "spawnVite")
    /\ UNCHANGED << csVars, dirVars, nwVars, raceVars >>
    /\ UNCHANGED << ports, quietVars, netVars >>

\* the dev server binds 127.0.0.1:<port>; started with --strictPort it does
\* not move to another port when this one is taken (it can only exit)
ViteBinds ==
    /\ Running /\ vite = "running" /\ portHolder = "none"
    /\ ~(closeSignalPort = "same" /\ cs = "listening")
    /\ portHolder' = "vite"
    /\ UNCHANGED << mainVars, viteVars, probeVars, csVars, dirVars, nwVars, raceVars >>
    /\ UNCHANGED << quietVars, steps, probe, readyBy, closeSignalPort >>

\* the dev server ends on its own; its port, if it held it, is free again
ViteExits ==
    /\ Running /\ vite = "running"
    /\ vite' = "exited"
    /\ portHolder' = IF portHolder = "vite" THEN "none" ELSE portHolder
    /\ UNCHANGED << viteKilled, viteSignals >>
    /\ UNCHANGED << mainVars, probeVars, csVars, dirVars, nwVars, raceVars >>
    /\ UNCHANGED << quietVars, steps, probe, readyBy, closeSignalPort >>

\* ------------------------------------------------------ waitForServer

\* the body shared by the 'response' callback with status >= 500 and the
\* 'error' listener: retry while attempts < maxAttempts, else reject
RetryOrReject(message) ==
    IF retryAllowed(attempts)
    THEN /\ timers' = timers + 1
         /\ UNCHANGED << wfs, wfsError >>
    ELSE /\ wfs' = settle(wfs, "rejected")
         /\ wfsError' = IF wfs = "pending" THEN message ELSE wfsError
         /\ UNCHANGED timers

\* httpGet's response callback, run when whoever is bound to the port
\* answers; `open` says whether the socket stays open after the response
\* head (so that it can still fail)
ProbeResponse(ok, open) ==
    /\ Running /\ inflight > 0
    /\ portHolder # "none"
    /\ open => responded + doubles < MaxDoubleDelivery
    /\ readyBy' = IF ok /\ wfs = "pending" THEN portHolder ELSE readyBy
    /\ inflight' = inflight - 1
    /\ responded' = IF open THEN responded + 1 ELSE responded
    /\ okSeen' = (okSeen \/ ok)
    /\ IF ok
       THEN /\ wfs' = settle(wfs, "resolved")
            /\ UNCHANGED << timers, wfsError >>
       ELSE RetryOrReject("Vite not ready after maxAttempts attempts")
    /\ UNCHANGED << attempts, doubles >>
    /\ UNCHANGED << mainVars, viteVars, csVars, dirVars, nwVars, raceVars >>
    /\ UNCHANGED << quietVars, steps, probe, portHolder, closeSignalPort >>

\* req.on('error'): connection refused, reset, or the 1000 ms timeout's
\* req.destroy(), on a probe that delivered no response
ProbeError ==
    /\ Running /\ inflight > 0
    /\ inflight' = inflight - 1
    /\ RetryOrReject("Vite at url never responded")
    /\ UNCHANGED << attempts, responded, doubles, okSeen >>
    /\ UNCHANGED << mainVars, viteVars, csVars, dirVars, nwVars, raceVars >>
    /\ UNCHANGED otherVars

\* req.on('error') on a probe whose response callback already ran: the
\* socket fails while the response body is still being drained
ProbeErrorAfterResponse ==
    /\ Running /\ responded > 0
    /\ responded' = responded - 1
    /\ doubles < MaxDoubleDelivery
    /\ doubles' = doubles + 1
    /\ RetryOrReject("Vite at url never responded")
    /\ UNCHANGED << attempts, inflight, okSeen >>
    /\ UNCHANGED << mainVars, viteVars, csVars, dirVars, nwVars, raceVars >>
    /\ UNCHANGED otherVars

\* setTimeout(attempt, 150) fires: attempts++ and the next probe is issued
ProbeTimer ==
    /\ Running /\ timers > 0
    /\ timers' = timers - 1
    /\ attempts' = attempts + 1
    /\ inflight' = inflight + 1
    /\ UNCHANGED << wfs, responded, doubles, okSeen, wfsError >>
    /\ UNCHANGED << mainVars, viteVars, csVars, dirVars, nwVars, raceVars >>
    /\ UNCHANGED otherVars

\* waitForServer rejected: startVite throws inside main's try block
StartViteThrows ==
    /\ Running /\ pc = "waitForServer" /\ wfs = "rejected"
    /\ pc' = "mainTail"
    /\ err' = "viteNotReady"
    /\ UNCHANGED << exitCode, thrown, viteConfig, rmConfigCalls, tryEntered >>
    /\ UNCHANGED << viteVars, probeVars, csVars, dirVars, nwVars, raceVars >>
    /\ UNCHANGED << ports, otherVars >>

\* ----------------------------------------------------------- openWindow

\* startVite returned: main calls openWindow, which awaits
\* createCloseSignalServer(), itself awaiting getEphemeralPort().
\* waitForServer's closure (its local counter `attempts`) is released here:
\* the promise is settled and it has no probe or timer outstanding.
OpenWindowStart ==
    /\ Running /\ pc = "waitForServer" /\ startViteReturns(wfs)
    /\ pc' = "csPort"
    /\ attempts' = IF inflight + responded + timers = 0 THEN 0 ELSE attempts
    /\ steps' = Append(steps, "ready")
    /\ probe' = "none"
    /\ UNCHANGED << wfs, inflight, responded, timers, doubles, okSeen, wfsError >>
    /\ UNCHANGED << exitCode, err, thrown, viteConfig, rmConfigCalls, tryEntered >>
    /\ UNCHANGED << viteVars, csVars, dirVars, nwVars, raceVars >>
    /\ UNCHANGED << ports, quietVars, portHolder, readyBy, closeSignalPort >>

\* createCloseSignalServer: const port = await getEphemeralPort(): the
\* await returns
CsPort ==
    /\ Running /\ pc = "csPort" /\ portResolved(probe)
    /\ pc' = "csListen"
    /\ ports' = ports + 1
    /\ UNCHANGED << err, exitCode, thrown, viteConfig, rmConfigCalls, tryEntered >>
    /\ UNCHANGED << viteVars, probeVars, csVars, dirVars, nwVars, raceVars >>
    /\ UNCHANGED otherVars

\* faulty variant: createCloseSignalServer returns without awaiting the
\* outcome of server.listen
serverListen_NoAwait(ok) ==
    [ cs |-> IF ok THEN "listening" ELSE "none", returns |-> TRUE ]

\* createCloseSignalServer returns once `await new Promise(...)` around
\* server.listen(port, '127.0.0.1', () => resolve()) has resolved: the
\* listener is bound; server.once('error', reject) makes it throw instead
serverListen(ok) ==
    [ cs |-> IF ok THEN "listening" ELSE "none", returns |-> ok ]

\* createCloseSignalServer: server.listen(port, '127.0.0.1') on the port
\* just released; it fails when the port has been taken in between
CsListen(ok) ==
    /\ Running /\ pc = "csListen"
    /\ ok => ~(closeSignalPort = "same" /\ portHolder # "none")
    /\ IF serverListen(ok).returns
       THEN /\ pc' = "launch"
            /\ cs' = serverListen(ok).cs
            /\ steps' = Append(steps, "closeSignal")
            /\ UNCHANGED err
       ELSE /\ pc' = "mainTail"
            /\ err' = "closeSignalListen"
            /\ UNCHANGED << cs, steps >>
    /\ UNCHANGED << exitCode, thrown, viteConfig, rmConfigCalls, tryEntered >>
    /\ UNCHANGED << resolved, closedP, resolveCalls, sock, answered >>
    /\ UNCHANGED << viteVars, probeVars, dirVars, nwVars, raceVars >>
    /\ UNCHANGED << ports, quietVars, netVars >>

\* createNwHostApp (mkdtempSync x2, writeFileSync of the descriptor and the
\* entry script; any of them may throw, before openWindow's try block), then
\* spawn(nwBin), waitForExit's listeners, onReady, and the race is awaited
Launch(outcome) ==
    /\ Running /\ pc = "launch"
    /\ hostDir' = IF outcome = "mkdtempHost" THEN "none" ELSE "created"
    /\ userDataDir' = IF outcome \in {"mkdtempHost", "mkdtempProfile"}
                      THEN "none" ELSE "created"
    /\ IF outcome = "ok"
       THEN /\ pc' = "race"
            /\ nw' = "running"
            /\ exitP' = "pending"
            /\ raceP' = PromiseRace("pending", "pending", closedP)
            /\ UNCHANGED err
       ELSE /\ pc' = "mainTail"
            /\ err' = "bundle"
            /\ UNCHANGED << nw, exitP, raceP >>
    /\ steps' = IF outcome = "ok" THEN steps \o << "bundle", "spawnNw" >> ELSE steps
    /\ UNCHANGED << exitCode, thrown, viteConfig, rmConfigCalls, tryEntered >>
    /\ UNCHANGED << hostRm, profileRm, warnings >>
    /\ UNCHANGED << nwKilled, nwSignals, nwExitCode >>
    /\ UNCHANGED << firstEvent, lateExit, owResult, teardowns >>
    /\ UNCHANGED << viteVars, probeVars, csVars >>
    /\ UNCHANGED << ports, quietVars, netVars >>

\* the shell's 'exit' event (code, signal): waitForExit's once('exit')
NwExit(code) ==
    /\ Running /\ nw = "running"
    /\ nw' = "exited"
    /\ nwExitCode' = code
    /\ exitP' = settle(exitP, waitForExit(code))
    /\ raceP' = PromiseRace(raceP, exitP', closedP)
    /\ firstEvent' = IF firstEvent = "none" THEN "exit" ELSE firstEvent
    /\ lateExit' = (lateExit \/ raceP # "pending")
    /\ UNCHANGED << nwKilled, nwSignals, owResult, teardowns >>
    /\ UNCHANGED << mainVars, viteVars, probeVars, csVars, dirVars >>
    /\ UNCHANGED otherVars

\* the shell's 'error' event (the binary could not be spawned):
\* waitForExit's once('error', reject)
NwError ==
    /\ Running /\ nw = "running" /\ nwSignals = 0
    /\ nw' = "spawnFailed"
    /\ exitP' = settle(exitP, "rejected")
    /\ raceP' = PromiseRace(raceP, exitP', closedP)
    /\ firstEvent' = IF firstEvent = "none" THEN "error" ELSE firstEvent
    /\ lateExit' = (lateExit \/ raceP # "pending")
    /\ UNCHANGED << nwKilled, nwSignals, nwExitCode, owResult, teardowns >>
    /\ UNCHANGED << mainVars, viteVars, probeVars, csVars, dirVars >>
    /\ UNCHANGED otherVars

\* a peer connects to the close-signal listener; sockets are numbered in
\* the order the listener accepts them
Connect(s) ==
    /\ Running /\ cs = "listening" /\ sock[s] = "unused"
    /\ \A t \in Sockets : t < s => sock[t] # "unused"
    /\ sock' = [sock EXCEPT ![s] = "open"]
    /\ UNCHANGED << cs, resolved, closedP, resolveCalls, answered >>
    /\ UNCHANGED << mainVars, viteVars, probeVars, dirVars, nwVars, raceVars >>
    /\ UNCHANGED otherVars

\* socket.once('data'): resolveClosed(); socket.write(204); socket.end()
SocketData(s) ==
    /\ Running /\ sock[s] = "open"
    /\ resolved' = TRUE
    /\ resolveCalls' = resolveCalls + resolveClosed(resolved)
    /\ closedP' = IF resolveClosed(resolved) > 0
                  THEN settle(closedP, "resolved") ELSE closedP
    /\ answered' = answered \cup {s}
    /\ sock' = [sock EXCEPT ![s] = "ended"]
    /\ raceP' = PromiseRace(raceP, exitP, closedP')
    /\ firstEvent' = IF firstEvent = "none" THEN "signal" ELSE firstEvent
    /\ UNCHANGED << cs, lateExit, owResult, teardowns >>
    /\ UNCHANGED << mainVars, viteVars, probeVars, dirVars, nwVars >>
    /\ UNCHANGED otherVars

\* the error openWindow rejects with when the race rejected
raceError == IF nw = "spawnFailed" THEN "spawn" ELSE "shellExit"

\* faulty variant: the temp directories are removed first
finallySteps_CleanupFirst(killed, hostThrew) ==
    << "cleanupHost" >>
    \o (IF hostThrew THEN << >> ELSE << "cleanupProfile" >>)
    \o << "closeSignal.stop" >>
    \o (IF killed THEN << >> ELSE << "nw.kill" >>)

\* the statements of openWindow's finally block, in their order: the
\* shell is signalled unless nw.killed; the second cleanupTempDir is not
\* reached when the first throws
finallySteps(killed, hostThrew) ==
    << "closeSignal.stop" >>
    \o (IF killed THEN << >> ELSE << "nw.kill" >>)
    \o << "cleanupHost" >>
    \o (IF hostThrew THEN << >> ELSE << "cleanupProfile" >>)

\* openWindow's finally block, run when the race has settled:
\* closeSignal.stop(); nw.kill; cleanupTempDir(hostDir); cleanupTempDir(userDataDir)
OpenWindowFinally(hc, pcode) ==
    /\ Running /\ pc = "race" /\ finallyRuns(raceP)
    /\ teardowns' = teardowns + 1
    /\ steps' = steps \o << "settled" >>
                      \o finallySteps(nwKilled, cleanupTempDir(hc).threw)
    /\ cs' = "stopped"
    /\ nwKilled' = killNw(nw, nwKilled).killed
    /\ nwSignals' = nwSignals + killNw(nw, nwKilled).sent
    /\ hostRm' = hc
    /\ hostDir' = IF cleanupTempDir(hc).removed THEN "removed" ELSE hostDir
    /\ profileRm' = IF cleanupTempDir(hc).threw THEN profileRm ELSE pcode
    /\ userDataDir' = IF ~cleanupTempDir(hc).threw /\ cleanupTempDir(pcode).removed
                      THEN "removed" ELSE userDataDir
    /\ warnings' = warnings
          \cup (IF cleanupTempDir(hc).warned THEN {"host"} ELSE {})
          \cup (IF ~cleanupTempDir(hc).threw /\ cleanupTempDir(pcode).warned
                THEN {"profile"} ELSE {})
    /\ owResult' = IF cleanupTempDir(hc).threw
                      \/ cleanupTempDir(pcode).threw
                      \/ raceP = "rejected"
                   THEN "rejected" ELSE "resolved"
    /\ err' = IF cleanupTempDir(hc).threw \/ cleanupTempDir(pcode).threw
              THEN "cleanup"
              ELSE IF raceP = "rejected" THEN raceError ELSE "none"
    /\ pc' = "mainTail"
    /\ UNCHANGED << exitCode, thrown, viteConfig, rmConfigCalls, tryEntered >>
    /\ UNCHANGED << resolved, closedP, resolveCalls, sock, answered >>
    /\ UNCHANGED << nw, nwExitCode, exitP, raceP, firstEvent, lateExit >>
    /\ UNCHANGED << viteVars, probeVars >>
    /\ UNCHANGED << ports, quietVars, netVars >>

\* -------------------------------------------------------- main, part 2

\* faulty variant: the augmented config is removed before stopVite
tailSteps_RemoveFirst(e) ==
    (IF finallyRemovesConfig(e) THEN << "removeConfig" >> ELSE << >>)
    \o (IF mainStopsVite(e) THEN << "stopVite" >> ELSE << >>)

\* the statements main runs once openWindow has settled, in their order:
\* stopVite(vite) ends the try block, removeAugmentedViteConfig is the
\* finally block
tailSteps(e) ==
    (IF mainStopsVite(e) THEN << "stopVite" >> ELSE << >>)
    \o (IF finallyRemovesConfig(e) THEN << "removeConfig" >> ELSE << >>)

\* the rest of main's try block and its finally: stopVite(vite) if
\* openWindow returned; removeAugmentedViteConfig(viteConfig) in any case;
\* then process.exit(0), or the error leaves `await main()`
MainTail(code) ==
    /\ Running /\ pc = "mainTail"
    /\ steps' = steps \o tailSteps(err)
    /\ viteKilled' = IF mainStopsVite(err)
                     THEN stopVite(vite, viteKilled).killed ELSE viteKilled
    /\ viteSignals' = IF mainStopsVite(err)
                      THEN viteSignals + stopVite(vite, viteKilled).sent
                      ELSE viteSignals
    /\ IF finallyRemovesConfig(err)
       THEN /\ rmConfigCalls' = rmConfigCalls + 1
            /\ viteConfig' = IF removeAugmentedViteConfig(code).removed
                             THEN "removed" ELSE viteConfig
            /\ thrown' = IF removeAugmentedViteConfig(code).threw
                         THEN "configRm" ELSE err
       ELSE /\ thrown' = err
            /\ UNCHANGED << rmConfigCalls, viteConfig >>
    /\ exitCode' = IF thrown' = "none" THEN "0" ELSE "1"
    /\ pc' = "exited"
    /\ UNCHANGED << err, tryEntered, vite >>
    /\ UNCHANGED << probeVars, csVars, dirVars, nwVars, raceVars >>
    /\ UNCHANGED << ports, quietVars, netVars >>

\* ------------------------------------------------------------------ Next

Next ==
    \/ TopLevel
    \/ \E found \in BOOLEAN, nwOk \in BOOLEAN : MainEntry(found, nwOk)
    \/ \E c \in {"react-ts", "vanilla", "exit"} : HandleNoProject(c)
    \/ \E status \in SpawnStatus, install \in SpawnStatus, tpl \in BOOLEAN,
          nwOk \in BOOLEAN :
          Scaffold(status, install, tpl, nwOk)
    \/ \E ok \in BOOLEAN : PortListen(ok)
    \/ PortListening
    \/ PortClosed
    \/ GetPort
    \/ \E o \in {"ok", "mkdtemp", "write"} : CreateAugmentedViteConfig(o)
    \/ StartVite
    \/ ViteBinds
    \/ ViteExits
    \/ \E ok \in BOOLEAN : ProbeResponse(ok, FALSE)
    \/ ProbeError
    \/ ProbeTimer
    \/ StartViteThrows
    \/ OpenWindowStart
    \/ CsPort
    \/ \E ok \in BOOLEAN : CsListen(ok)
    \/ \E o \in {"ok", "mkdtempHost", "mkdtempProfile", "write"} : Launch(o)
    \/ \E c \in ExitCodes : NwExit(c)
    \/ NwError
    \/ \E s \in Sockets : Connect(s)
    \/ \E s \in Sockets : SocketData(s)
    \/ \E hc \in RmOutcomes, pcode \in RmOutcomes : OpenWindowFinally(hc, pcode)
    \/ \E c \in RmOutcomes : MainTail(c)

\* one run of the CLI in which every readiness probe delivers one event
Spec == Init /\ [][Next]_vars

\* ------------------------- the run, with a competitor for the dev port

\* main has found the project and the shell binary and is about to call
\* getEphemeralPort
InitNet ==
    /\ pc = "getPort"
    /\ RunIdle
    /\ args = NoArgs
    /\ project = "present"
    /\ choice = "none"
    /\ scaffoldStatus = "none"
    /\ installStatus = "none"
    /\ ports = 0
    /\ UnitIdle
    /\ JsIdle
    /\ RestIdle

NextNet ==
    \/ \E ok \in BOOLEAN : PortListen(ok)
    \/ PortListening
    \/ PortClosed
    \/ GetPort
    \/ OtherBinds
    \/ \E o \in {"ok", "mkdtemp", "write"} : CreateAugmentedViteConfig(o)
    \/ StartVite
    \/ ViteBinds
    \/ ViteExits
    \/ \E ok \in BOOLEAN : ProbeResponse(ok, FALSE)
    \/ ProbeError
    \/ ProbeTimer
    \/ StartViteThrows
    \/ OpenWindowStart
    \/ CsPort
    \/ \E ok \in BOOLEAN : CsListen(ok)
    \/ \E o \in {"ok", "mkdtempHost", "mkdtempProfile", "write"} : Launch(o)
    \/ \E c \in ExitCodes : NwExit(c)
    \/ NwError
    \/ \E s \in Sockets : Connect(s)
    \/ \E s \in Sockets : SocketData(s)
    \/ \E hc \in RmOutcomes, pcode \in RmOutcomes : OpenWindowFinally(hc, pcode)
    \/ \E c \in RmOutcomes : MainTail(c)

\* one run from getEphemeralPort on, in which another local process may
\* bind the dev server's port while it is free
SpecNet == InitNet /\ [][NextNet]_vars

\* ------------------------------------------- waitForServer on its own

\* the state in which startVite has just called waitForServer(url)
InitProbe ==
    /\ pc = "waitForServer"
    /\ exitCode = "running"
    /\ err = "none"
    /\ thrown = "none"
    /\ viteConfig = "created"
    /\ rmConfigCalls = 0
    /\ tryEntered = TRUE
    /\ vite = "running"
    /\ viteKilled = FALSE
    /\ viteSignals = 0
    /\ wfs = "pending"
    /\ attempts = 1
    /\ inflight = 1
    /\ responded = 0
    /\ timers = 0
    /\ doubles = 0
    /\ okSeen = FALSE
    /\ wfsError = "none"
    /\ cs = "none"
    /\ resolved = FALSE
    /\ closedP = "pending"
    /\ resolveCalls = 0
    /\ sock = [s \in Sockets |-> "unused"]
    /\ answered = {}
    /\ hostDir = "none"
    /\ userDataDir = "none"
    /\ hostRm = "none"
    /\ profileRm = "none"
    /\ warnings = {}
    /\ nw = "none"
    /\ nwKilled = FALSE
    /\ nwSignals = 0
    /\ nwExitCode = "none"
    /\ exitP = "none"
    /\ raceP = "none"
    /\ firstEvent = "none"
    /\ lateExit = FALSE
    /\ owResult = "none"
    /\ teardowns = 0
    /\ args = NoArgs
    /\ project = "present"
    /\ choice = "none"
    /\ scaffoldStatus = "none"
    /\ installStatus = "none"
    /\ ports = 1
    /\ steps = << "port", "config", "spawnVite" >>
    /\ probe = "closed"
    /\ portHolder = "vite"
    /\ readyBy = "none"
    /\ closeSignalPort = "none"
    /\ UnitIdle
    /\ JsIdle
    /\ RestIdle

\* the callbacks of waitForServer, a probe's socket being allowed to fail
\* after its response was delivered
NextProbe ==
    \/ \E ok \in BOOLEAN, open \in BOOLEAN : ProbeResponse(ok, open)
    \/ ProbeError
    \/ ProbeErrorAfterResponse
    \/ ProbeTimer

SpecProbe == InitProbe /\ [][NextProbe]_vars

\* ----------------------------------- generated files, stopVite: on their own

\* getTitle(cwd): package.json windowd.title, displayName, name (a file that
\* cannot be read or parsed is skipped), then index.html <title>, then the
\* directory name
getTitle(p, html) ==
    IF p.readable /\ "windowd.title" \in p.fields THEN "windowd.title"
    ELSE IF p.readable /\ "displayName" \in p.fields THEN "displayName"
    ELSE IF p.readable /\ "name" \in p.fields THEN "name"
    ELSE IF html THEN "html"
    ELSE "dirname"

\* main: const title = args.title ?? getTitle(cwd)
mainTitle(a, p, html) == IF a.title THEN "flag" ELSE getTitle(p, html)

\* scaffold: const title = basename(cwd)
scaffoldTitle == "dirname"

\* createNwHostApp: windowConfig = { title, width, height, ...nw.window }
windowConfigTitle(t, cfg) == IF cfg.windowTitle THEN "config" ELSE t

\* top level: artifactsDir = args.artifacts ?? args.capture; the app log path
\* exists iff debug artifacts were set up
appLogPath(a) == a.artifacts \/ a.capture

\* createNwHostApp: the manifest literal, and chromium-args when the config
\* or --debug gives any
baseManifest(cfg, debug) ==
    [ k \in ManifestKeys |->
        IF k \in { "name", "main", "single-instance", "node-main",
                   "node-remote", "window" }
        THEN "windowd"
        ELSE IF k = "chromium-args" /\ (cfg.chromiumArgs \/ debug)
        THEN "windowd"
        ELSE "absent" ]

\* faulty variant: the bundle name is not protected
protectedKeys_NoName == { "main", "node-main" }

\* applyUserManifestOverrides: new Set(['main', 'node-main', 'name'])
protectedKeys == { "main", "node-main", "name" }

\* faulty variant: a user key is applied only where the manifest has none
applyUserManifestOverrides_KeepOwn(m, um) ==
    [ manifest |-> [ k \in ManifestKeys |->
                       IF k \in um /\ k \notin protectedKeys /\ m[k] = "absent"
                       THEN "user" ELSE m[k] ],
      warned   |-> [ k \in ManifestKeys |->
                       IF k \in um /\ k \in protectedKeys THEN 1 ELSE 0 ] ]

\* applyUserManifestOverrides(manifest, userManifest): each entry of the
\* user's object is warned about and skipped if protected, assigned otherwise
applyUserManifestOverrides(m, um) ==
    [ manifest |-> [ k \in ManifestKeys |->
                       IF k \in um /\ k \notin protectedKeys
                       THEN "user" ELSE m[k] ],
      warned   |-> [ k \in ManifestKeys |->
                       IF k \in um /\ k \in protectedKeys THEN 1 ELSE 0 ] ]

\* createNwHostApp: `if (appLogPath) { ...; manifest.inject_js_start =
\* 'windowd-preload.js'; }`, after the user's overrides
injectPreload(m, log) ==
    IF log THEN [ m EXCEPT !["inject_js_start"] = "windowd" ] ELSE m

\* the warning printed when that assignment replaces a user's string
injectWarns(m, log) == log /\ m["inject_js_start"] = "user"

\* the generated vite config: { cacheDir: viteCacheDir, ...userConfig, ... }
generatedCacheDir(uc) ==
    IF uc.present /\ uc.cacheDir THEN "user" ELSE "temp"

\* main's `args.title ?? getTitle(cwd)`, or scaffold's `basename(cwd)`
ResolveTitle ==
    /\ pc = "unitTitle"
    /\ title' = IF choice = "none"
                THEN mainTitle(args, pkg, htmlTitle) ELSE scaffoldTitle
    /\ pc' = "unitHostApp"
    /\ UNCHANGED << exitCode, err, thrown, viteConfig, rmConfigCalls, tryEntered,
                    ports >>
    /\ UNCHANGED << viteVars, probeVars, csVars, dirVars, nwVars, raceVars >>
    /\ UNCHANGED << pkg, htmlTitle, nwConfig, windowConfig, manifest,
                    manifestWarnings, injectWarned, userViteConfig, cacheDir,
                    stopCalls >>
    /\ UNCHANGED << flowVars, jsVars, restVars >>

\* SUPPORTED_ICON_EXTS
SUPPORTED_ICON_EXTS == { ".png", ".ico", ".jpg", ".jpeg" }

\* getIconPath's test of the href: not `data:`, not `http...`, a supported
\* extension after toLowerCase, and existsSync
linkUsable(l) ==
    /\ l.scheme # "none"
    /\ l.scheme # "data:" /\ l.scheme # "http"
    /\ toLowerCase(l.ext) \in SUPPORTED_ICON_EXTS
    /\ l.exists

\* `for (const name of [...]) if (existsSync(abs)) return abs`
firstExisting(dir, present) ==
    LET hits == { i \in 1..Len(FaviconNames) : FaviconNames[i] \in present }
    IN  IF hits = {} THEN "null"
        ELSE LET i == CHOOSE j \in hits : \A k \in hits : j <= k
             IN  IF dir = "" THEN FaviconNames[i]
                 ELSE IF FaviconNames[i] = "favicon.ico" THEN "public/favicon.ico"
                 ELSE IF FaviconNames[i] = "favicon.png" THEN "public/favicon.png"
                 ELSE "public/favicon.jpg"

\* faulty variant: public/ is searched before the project root
getIconPath_PublicFirst(inp) ==
    IF linkUsable(inp.link) THEN "link"
    ELSE IF firstExisting("public", inp.public) # "null"
    THEN firstExisting("public", inp.public)
    ELSE firstExisting("", inp.root)

\* getIconPath: the linked file, else a favicon in the root, else one in
\* public/, else null
getIconPath(inp) ==
    IF linkUsable(inp.link) THEN "link"
    ELSE IF firstExisting("", inp.root) # "null"
    THEN firstExisting("", inp.root)
    ELSE firstExisting("public", inp.public)

\* createNwHostApp's icon step: a configured window.icon is kept; else
\* getIconPath(projectDir) ?? DEFAULT_ICON_PATH is copied and named in
\* window.icon, and a failed copy leaves window.icon unset
resolveIcon(inp) ==
    IF inp.config THEN "config"
    ELSE LET iconSrc == IF getIconPath(inp) = "null" THEN "default"
                        ELSE getIconPath(inp)
         IN  IF inp.copy THEN iconSrc ELSE "absent"

\* createNwHostApp: windowConfig, the icon, the manifest, the user's
\* overrides, the preload hook, and the descriptor written to package.json
CreateNwHostApp ==
    /\ pc = "unitHostApp"
    /\ windowConfig' = windowConfigTitle(title, nwConfig)
    /\ icon' = resolveIcon(iconIn)
    /\ LET r == applyUserManifestOverrides(baseManifest(nwConfig, args.debug),
                                           nwConfig.manifest)
       IN  /\ manifest' = injectPreload(r.manifest, appLogPath(args))
           /\ manifestWarnings' = r.warned
           /\ injectWarned' = injectWarns(r.manifest, appLogPath(args))
    /\ pc' = "unitDone"
    /\ UNCHANGED << exitCode, err, thrown, viteConfig, rmConfigCalls, tryEntered,
                    ports >>
    /\ UNCHANGED << viteVars, probeVars, csVars, dirVars, nwVars, raceVars >>
    /\ UNCHANGED << pkg, htmlTitle, nwConfig, title, userViteConfig, cacheDir,
                    stopCalls >>
    /\ UNCHANGED << flowVars, jsVars, tsVars, iconIn, libVars, steps, netVars,
                    mergeVars >>

\* the module createAugmentedViteConfig writes, evaluated by the dev server
GenerateViteConfig ==
    /\ pc = "unitConfig"
    /\ cacheDir' = generatedCacheDir(userViteConfig)
    /\ pc' = "unitDone"
    /\ UNCHANGED << exitCode, err, thrown, viteConfig, rmConfigCalls, tryEntered,
                    ports >>
    /\ UNCHANGED << viteVars, probeVars, csVars, dirVars, nwVars, raceVars >>
    /\ UNCHANGED << pkg, htmlTitle, nwConfig, title, windowConfig, manifest,
                    manifestWarnings, injectWarned, userViteConfig, stopCalls >>
    /\ UNCHANGED << flowVars, jsVars, restVars >>

\* startVite's spawn(...): the handle stopVite is later given
SpawnVite ==
    /\ pc = "unitStop" /\ vite = "none"
    /\ vite' = "running"
    /\ UNCHANGED << viteKilled, viteSignals >>
    /\ UNCHANGED << mainVars, probeVars, csVars, dirVars, nwVars, raceVars >>
    /\ UNCHANGED otherVars

\* stopVite(vite), called again and again on the same handle
StopViteCall ==
    /\ pc = "unitStop" /\ vite # "none"
    /\ stopCalls < MaxStopCalls
    /\ stopCalls' = stopCalls + 1
    /\ viteKilled' = stopVite(vite, viteKilled).killed
    /\ viteSignals' = viteSignals + stopVite(vite, viteKilled).sent
    /\ UNCHANGED vite
    /\ UNCHANGED << mainVars, probeVars, csVars, dirVars, nwVars, raceVars >>
    /\ UNCHANGED << pkg, htmlTitle, nwConfig, title, windowConfig, manifest,
                    manifestWarnings, injectWarned, userViteConfig, cacheDir >>
    /\ UNCHANGED << flowVars, jsVars, restVars >>

\* the inputs of the title: the flag, the flow, package.json, index.html, the
\* config's window.title, a user manifest that replaces `window`
InitTitle ==
    /\ pc = "unitTitle"
    /\ args \in { [ NoArgs EXCEPT !.title = t ] : t \in BOOLEAN }
    /\ choice \in { "none", "react-ts", "vanilla" }
    /\ pkg \in { p \in [ readable : BOOLEAN, fields : SUBSET PkgTitleFields ] :
                   ~p.readable => p.fields = {} }
    /\ htmlTitle \in BOOLEAN
    /\ nwConfig \in [ windowTitle : BOOLEAN, chromiumArgs : {FALSE},
                      manifest : { {}, {"window"} } ]
    /\ userViteConfig = [ present |-> FALSE, cacheDir |-> FALSE ]

\* the inputs of the descriptor: --debug, --artifacts, --capture, the
\* config's chromiumArgs, and the keys of the user's nw.manifest
InitManifest ==
    /\ pc = "unitTitle"
    /\ args \in { [ NoArgs EXCEPT !.debug = d, !.artifacts = a, !.capture = c ] :
                    d \in BOOLEAN, a \in BOOLEAN, c \in BOOLEAN }
    /\ choice = "none"
    /\ pkg = [ readable |-> FALSE, fields |-> {} ]
    /\ htmlTitle = FALSE
    /\ nwConfig \in [ windowTitle : {FALSE}, chromiumArgs : BOOLEAN,
                      manifest : { um \in SUBSET ManifestKeys :
                                     Cardinality(um) <= MaxUserKeys } ]
    /\ userViteConfig = [ present |-> FALSE, cacheDir |-> FALSE ]

\* the input of the generated vite config: the user's own config, if any
InitViteConfig ==
    /\ pc = "unitConfig"
    /\ args = NoArgs
    /\ choice = "none"
    /\ pkg = [ readable |-> FALSE, fields |-> {} ]
    /\ htmlTitle = FALSE
    /\ nwConfig = [ windowTitle |-> FALSE, chromiumArgs |-> FALSE, manifest |-> {} ]
    /\ userViteConfig \in { uc \in [ present : BOOLEAN, cacheDir : BOOLEAN ] :
                              uc.cacheDir => uc.present }

\* the inputs of the icon: window.icon of the config, the favicon link of
\* index.html, the favicons lying in the root and in public/, and whether
\* copyFileSync succeeds
InitIcon ==
    /\ pc = "unitTitle"
    /\ args = NoArgs
    /\ choice = "none"
    /\ pkg = [ readable |-> FALSE, fields |-> {} ]
    /\ htmlTitle = FALSE
    /\ nwConfig = [ windowTitle |-> FALSE, chromiumArgs |-> FALSE, manifest |-> {} ]
    /\ userViteConfig = [ present |-> FALSE, cacheDir |-> FALSE ]
    /\ iconIn \in [ config : BOOLEAN, link : Links, root : SUBSET Favicons,
                     public : SUBSET Favicons, copy : BOOLEAN ]

\* stopVite: no input but the handle
InitStop ==
    /\ pc = "unitStop"
    /\ args = NoArgs
    /\ choice = "none"
    /\ pkg = [ readable |-> FALSE, fields |-> {} ]
    /\ htmlTitle = FALSE
    /\ nwConfig = [ windowTitle |-> FALSE, chromiumArgs |-> FALSE, manifest |-> {} ]
    /\ userViteConfig = [ present |-> FALSE, cacheDir |-> FALSE ]

\* ---- the module createAugmentedViteConfig writes, as vite evaluates it

\* the packages windowd ships a fallback alias for, in the loop's order
FallbackDeps == << "react", "react-dom" >>

\* const basePlugins = [windowThisNodeBuiltins(), react()?]
basePlugins(react) ==
    << "windowThisNodeBuiltins" >> \o (IF react THEN << "react" >> ELSE << >>)

\* plugins: basePlugins, then userConfig.plugins when it is an array
plugins(m) ==
    IF m.plugins.given
    THEN basePlugins(m.react) \o m.plugins.list ELSE basePlugins(m.react)

\* [...new Set(list)]: the first occurrence of each entry, in order
RECURSIVE unique(_)
unique(list) ==
    IF list = << >> THEN << >>
    ELSE LET front == unique(SubSeq(list, 1, Len(list) - 1))
             last == list[Len(list)]
         IN  IF \E i \in 1..Len(front) : front[i] = last
             THEN front ELSE Append(front, last)

\* const defaultFsAllow = [projectDir, path.resolve(projectDir, "..")]
defaultFsAllow == << "projectDir", "parentDir" >>

\* allow: [...new Set([...defaultFsAllow, ...userAllow])]
allow(m) ==
    unique(defaultFsAllow \o (IF m.allow.given THEN m.allow.list ELSE << >>))

\* the entries { find, replacement } of the deps in `keys`, in the order of
\* FallbackDeps, each marked with whose replacement it carries
entries(keys, by) ==
    LET kept(d) == d \in keys
        deps == SelectSeq(FallbackDeps, kept)
    IN  [ i \in 1..Len(deps) |-> [ find |-> deps[i], by |-> by ] ]

\* mergedAlias. Array form: the fallback entries, then the user's entries.
\* Otherwise { ...fallbackAliases, ...userAlias }: the fallback keys with
\* the user's value where the user defines the key, then the user's other
\* keys (the object's key order, which vite turns into a list of entries)
mergedAlias(m) ==
    IF m.alias.form = "array"
    THEN entries(m.fallback, "fallback") \o entries(m.alias.keys, "user")
    ELSE LET spread == entries(m.fallback, "fallback")
             own == entries(m.alias.keys \ m.fallback, "user")
         IN  [ i \in 1..Len(spread) |->
                 IF spread[i].find \in m.alias.keys
                 THEN [ find |-> spread[i].find, by |-> "user" ]
                 ELSE spread[i] ] \o own

\* vite loads the generated module: its default export
EvaluateViteConfig ==
    /\ pc = "unitMerge"
    /\ mergeOut' = [ plugins |-> plugins(mergeIn), allow |-> allow(mergeIn),
                     alias |-> mergedAlias(mergeIn) ]
    /\ pc' = "unitDone"
    /\ UNCHANGED << exitCode, err, thrown, viteConfig, rmConfigCalls, tryEntered,
                    ports >>
    /\ UNCHANGED << viteVars, probeVars, csVars, dirVars, nwVars, raceVars >>
    /\ UNCHANGED << flowVars, unitVars, jsVars, tsVars, iconVars, libVars >>
    /\ UNCHANGED << steps, netVars, mergeIn >>

\* what the user's allow list and plugin list can hold
AllowLists == { << >>, << "projectDir" >>, << "shared" >>, << "shared", "assets" >> }
PluginLists == { << >>, << "userPlugin" >>, << "userPlugin", "other" >> }

InitMerge ==
    /\ pc = "unitMerge"
    /\ args = NoArgs
    /\ choice = "none"
    /\ pkg = [ readable |-> FALSE, fields |-> {} ]
    /\ htmlTitle = FALSE
    /\ nwConfig = [ windowTitle |-> FALSE, chromiumArgs |-> FALSE, manifest |-> {} ]
    /\ mergeIn \in
          { m \in [ config : BOOLEAN, react : BOOLEAN,
                    fallback : SUBSET { "react", "react-dom" },
                    plugins : [ given : BOOLEAN, list : PluginLists ],
                    allow : [ given : BOOLEAN, list : AllowLists ],
                    alias : [ form : { "absent", "object", "array" },
                              keys : SUBSET { "react", "react-dom" } ] ] :
              /\ m.react => ~m.config
              /\ ~m.config => (~m.plugins.given /\ ~m.allow.given
                                 /\ m.alias.form = "absent")
              /\ ~m.plugins.given => m.plugins.list = << >>
              /\ ~m.allow.given => m.allow.list = << >>
              /\ m.alias.form = "absent" => m.alias.keys = {} }
    /\ userViteConfig = [ present |-> mergeIn.config, cacheDir |-> FALSE ]

InitUnit ==
    /\ RunIdle
    /\ \/ InitTitle /\ iconIn = NoIcon /\ mergeIn = NoMerge
       \/ InitManifest /\ iconIn = NoIcon /\ mergeIn = NoMerge
       \/ InitViteConfig /\ iconIn = NoIcon /\ mergeIn = NoMerge
       \/ InitStop /\ iconIn = NoIcon /\ mergeIn = NoMerge
       \/ InitIcon /\ mergeIn = NoMerge
       \/ InitMerge /\ iconIn = NoIcon
    /\ mergeOut = NoExport
    /\ project = IF choice = "none" THEN "present" ELSE "absent"
    /\ scaffoldStatus = IF choice = "none" THEN "none" ELSE "0"
    /\ installStatus = IF choice = "none" THEN "none" ELSE "0"
    /\ ports = 0
    /\ title = "none"
    /\ windowConfig = "none"
    /\ manifest = [ k \in ManifestKeys |-> "absent" ]
    /\ manifestWarnings = [ k \in ManifestKeys |-> 0 ]
    /\ injectWarned = FALSE
    /\ cacheDir = "none"
    /\ stopCalls = 0
    /\ JsIdle
    /\ TsIdle
    /\ icon = "none"
    /\ LibIdle

NextUnit ==
    \/ ResolveTitle
    \/ CreateNwHostApp
    \/ GenerateViteConfig
    \/ EvaluateViteConfig
    \/ SpawnVite
    \/ StopViteCall
    \/ ViteExits

\* the title, the descriptor, the generated vite config and stopVite, each
\* applied to inputs of its own
SpecUnit == InitUnit /\ [][NextUnit]_vars

\* ------------------------------------------- the shell's node-main script

\* the capture directory interpolated into the script: main passes
\* args.capture to openWindow, scaffold passes none
captureDir(a, c) == a.capture /\ c = "none"

\* waitForWindow's tick: `Date.now() - started > timeoutMs`
waitTimedOut(elapsed) == elapsed > timeoutMs

\* the script starts in the running shell; without the NW API it returns
NodeMainStart(api) ==
    /\ Running /\ nw = "running" /\ js = "none"
    /\ js' = IF api THEN "waitForWindow" ELSE "noApi"
    /\ UNCHANGED << jsElapsed, signalCloseCalls, captureFiles, hookVars >>
    /\ UNCHANGED << mainVars, viteVars, probeVars, csVars, dirVars, nwVars,
                    raceVars, flowVars, unitVars, restVars >>

\* one tick of waitForWindow, and the continuation of its promise: with a
\* window, installHandlers (attachToDocument now when the document is
\* there, else on 'loaded') and (capture mode) startCapture now or on
\* 'loaded'; without one, reject after timeoutMs (the catch only logs) or
\* setTimeout(tick, 100)
Tick(win, doc) ==
    /\ Running /\ nw = "running" /\ js = "waitForWindow"
    /\ IF win
       THEN /\ js' = IF ~captureDir(args, choice) THEN "idle"
                     ELSE IF doc THEN "settle" ELSE "waitLoaded"
            /\ jsElapsed' = 0
            /\ docHooks' = doc
       ELSE IF waitTimedOut(jsElapsed)
       THEN /\ js' = "waitFailed"
            /\ jsElapsed' = 0
            /\ UNCHANGED docHooks
       ELSE /\ jsElapsed' = jsElapsed + tickMs
            /\ UNCHANGED << js, docHooks >>
    /\ UNCHANGED << signalCloseCalls, captureFiles, unloading, closePosts,
                    reloads >>
    /\ UNCHANGED << mainVars, viteVars, probeVars, csVars, dirVars, nwVars,
                    raceVars, flowVars, unitVars, restVars >>

\* the window's first 'loaded' event after a missing document:
\* attachToDocument, and in capture mode startCapture sets its 2000 ms timer
PageLoaded ==
    /\ Running /\ nw = "running" /\ js \in { "waitLoaded", "idle" }
    /\ ~docHooks /\ unloading = "none"
    /\ js' = IF js = "waitLoaded" THEN "settle" ELSE js
    /\ docHooks' = TRUE
    /\ UNCHANGED << jsElapsed, signalCloseCalls, captureFiles, unloading,
                    closePosts, reloads >>
    /\ UNCHANGED << mainVars, viteVars, probeVars, csVars, dirVars, nwVars,
                    raceVars, flowVars, unitVars, restVars >>

\* the 2000 ms timer: win.capturePage(callback, ...)
SettleTimer ==
    /\ Running /\ nw = "running" /\ js = "settle"
    /\ js' = "capturePage"
    /\ UNCHANGED << jsElapsed, signalCloseCalls, captureFiles, hookVars >>
    /\ UNCHANGED << mainVars, viteVars, probeVars, csVars, dirVars, nwVars,
                    raceVars, flowVars, unitVars, restVars >>

\* capturePage's callback: write the two files (a failure is logged), then
\* signalClose(); win.close(true); App.quit(); process.exit(0)
CaptureCallback(writeOk) ==
    /\ Running /\ nw = "running" /\ js = "capturePage"
    /\ captureFiles' = IF writeOk THEN "written" ELSE "failed"
    /\ signalCloseCalls' = signalCloseCalls + 1
    /\ closePosts' = closePosts + 1
    /\ js' = "exited"
    /\ UNCHANGED << jsElapsed, docHooks, unloading, reloads >>
    /\ UNCHANGED << mainVars, viteVars, probeVars, csVars, dirVars, nwVars,
                    raceVars, flowVars, unitVars, restVars >>

\* the user closes the window: win.on('close') calls signalClose(),
\* this.close(true), App.quit(), process.exit(0)
UserCloses ==
    /\ Running /\ nw = "running"
    /\ js \in { "idle", "waitLoaded", "settle", "capturePage" }
    /\ unloading = "none"
    /\ signalCloseCalls' = signalCloseCalls + 1
    /\ closePosts' = closePosts + 1
    /\ js' = "exited"
    /\ UNCHANGED << jsElapsed, captureFiles, docHooks, unloading, reloads >>
    /\ UNCHANGED << mainVars, viteVars, probeVars, csVars, dirVars, nwVars,
                    raceVars, flowVars, unitVars, restVars >>

\* the page's window fires 'beforeunload', because the page reloads or
\* navigates (kind "reload") or because the window goes away without the
\* native 'close' event (kind "close"): the listener is signalClose itself
BeforeUnload(kind) ==
    /\ Running /\ nw = "running"
    /\ js \in { "idle", "settle", "capturePage" }
    /\ docHooks /\ unloading = "none"
    /\ kind = "reload" => reloads < MaxReloads
    /\ signalCloseCalls' = signalCloseCalls + 1
    /\ closePosts' = IF kind = "close" THEN closePosts + 1 ELSE closePosts
    /\ reloads' = IF kind = "reload" THEN reloads + 1 ELSE reloads
    /\ unloading' = kind
    /\ UNCHANGED << js, jsElapsed, captureFiles, docHooks >>
    /\ UNCHANGED << mainVars, viteVars, probeVars, csVars, dirVars, nwVars,
                    raceVars, flowVars, unitVars, restVars >>

\* 'unload' follows: signalClose again. The listeners went with the old
\* document; after a reload the new one has them only if attachToDocument
\* is registered for 'loaded' and the event comes (reattached)
Unload(reattached) ==
    /\ Running /\ nw = "running"
    /\ js \in { "idle", "settle", "capturePage" }
    /\ unloading \in { "reload", "close" }
    /\ signalCloseCalls' = signalCloseCalls + 1
    /\ closePosts' = IF unloading = "close" THEN closePosts + 1 ELSE closePosts
    /\ unloading' = IF unloading = "close" THEN "closed" ELSE "none"
    /\ docHooks' = IF unloading = "close" THEN FALSE ELSE reattached
    /\ UNCHANGED << js, jsElapsed, captureFiles, reloads >>
    /\ UNCHANGED << mainVars, viteVars, probeVars, csVars, dirVars, nwVars,
                    raceVars, flowVars, unitVars, restVars >>

\* App 'window-all-closed' once the window is gone: signalClose(),
\* App.quit(), process.exit(0)
WindowAllClosed ==
    /\ Running /\ nw = "running"
    /\ js \in { "idle", "settle", "capturePage" }
    /\ unloading = "closed"
    /\ signalCloseCalls' = signalCloseCalls + 1
    /\ closePosts' = closePosts + 1
    /\ js' = "exited"
    /\ UNCHANGED << jsElapsed, captureFiles, docHooks, unloading, reloads >>
    /\ UNCHANGED << mainVars, viteVars, probeVars, csVars, dirVars, nwVars,
                    raceVars, flowVars, unitVars, restVars >>

\* a POST of signalClose() reaches the close-signal listener
SignalArrives(s) ==
    /\ Cardinality({ t \in Sockets : sock[t] # "unused" }) < signalCloseCalls
    /\ Connect(s)

\* the CLI observes the shell's exit: code 0 after the script's
\* process.exit(0), code null after the teardown's SIGTERM
ShellExits(code) ==
    /\ \/ js = "exited" /\ nwSignals = 0 /\ code = "0"
       \/ nwSignals > 0 /\ code = "null"
    /\ NwExit(code)

\* openWindow has spawned the shell and awaits the race; main passed
\* --capture or not, or the project was scaffolded first
InitCapture ==
    /\ pc = "race"
    /\ exitCode = "running"
    /\ err = "none"
    /\ thrown = "none"
    /\ viteConfig = "created"
    /\ rmConfigCalls = 0
    /\ tryEntered = TRUE
    /\ vite = "running"
    /\ viteKilled = FALSE
    /\ viteSignals = 0
    /\ wfs = "resolved"
    /\ attempts = 0
    /\ inflight = 0
    /\ responded = 0
    /\ timers = 0
    /\ doubles = 0
    /\ okSeen = TRUE
    /\ wfsError = "none"
    /\ cs = "listening"
    /\ resolved = FALSE
    /\ closedP = "pending"
    /\ resolveCalls = 0
    /\ sock = [s \in Sockets |-> "unused"]
    /\ answered = {}
    /\ hostDir = "created"
    /\ userDataDir = "created"
    /\ hostRm = "none"
    /\ profileRm = "none"
    /\ warnings = {}
    /\ nw = "running"
    /\ nwKilled = FALSE
    /\ nwSignals = 0
    /\ nwExitCode = "none"
    /\ exitP = "pending"
    /\ raceP = "pending"
    /\ firstEvent = "none"
    /\ lateExit = FALSE
    /\ owResult = "none"
    /\ teardowns = 0
    /\ args \in { [ NoArgs EXCEPT !.capture = c ] : c \in BOOLEAN }
    /\ choice \in { "none", "react-ts" }
    /\ project = IF choice = "none" THEN "present" ELSE "absent"
    /\ scaffoldStatus = IF choice = "none" THEN "none" ELSE "0"
    /\ installStatus = IF choice = "none" THEN "none" ELSE "0"
    /\ ports = 2
    /\ steps = << "port", "config", "spawnVite", "ready", "closeSignal", "bundle",
                  "spawnNw" >>
    /\ probe = "closed"
    /\ portHolder = "vite"
    /\ readyBy = "vite"
    /\ closeSignalPort = "other"
    /\ UnitIdle
    /\ JsIdle
    /\ RestIdle

NextCapture ==
    \/ \E api \in BOOLEAN : NodeMainStart(api)
    \/ \E win \in BOOLEAN, doc \in BOOLEAN : Tick(win, doc)
    \/ PageLoaded
    \/ SettleTimer
    \/ \E writeOk \in BOOLEAN : CaptureCallback(writeOk)
    \/ UserCloses
    \/ \E kind \in { "reload", "close" } : BeforeUnload(kind)
    \/ \E reattached \in BOOLEAN : Unload(reattached)
    \/ WindowAllClosed
    \/ \E s \in Sockets : SignalArrives(s)
    \/ \E s \in Sockets : SocketData(s)
    \/ \E c \in ExitCodes : ShellExits(c)
    \/ \E hc \in RmOutcomes, pcode \in RmOutcomes : OpenWindowFinally(hc, pcode)
    \/ \E c \in RmOutcomes : MainTail(c)

\* the shell's script and the CLI that waits for it, with no event but the
\* script's own and the user's
SpecCapture == InitCapture /\ [][NextCapture]_vars

\* ------------------------------------------- the exported functions of lib

\* everything but the function under test and its input
runVars == << mainVars, viteVars, probeVars, csVars, dirVars, nwVars, raceVars,
              flowVars, unitVars, jsVars, tsVars, iconVars, steps, netVars,
              mergeVars >>

\* the forms parseArgs compares `arg` with, per option
Forms ==
    [ version |-> { "--version", "-v" }, help |-> { "--help", "-h" },
      debug |-> { "--debug", "-d" }, init |-> { "--init", "-i" },
      width |-> { "--width", "-W" }, height |-> { "--height", "-H" },
      title |-> { "--title", "-t" }, capture |-> { "--capture" },
      artifacts |-> { "--artifacts" } ]
BoolOptions == { "version", "help", "debug", "init" }
ValueOptions == { "width", "height", "title", "capture", "artifacts" }
Options == BoolOptions \cup ValueOptions
FlagTokens == UNION { Forms[o] : o \in Options }

\* tokens that are no flag: a number, a number with a unit, the empty string
Tokens == FlagTokens \cup { "640", "12px", "" }

\* parseInt(token, 10): the leading digits, NaN without any
parseInt(tok) ==
    IF tok = "640" THEN Num(640)
    ELSE IF tok = "12px" THEN Num(12)
    ELSE NaN

\* argv[i], undefined past the end
at(list, i) == IF i >= 1 /\ i <= Len(list) THEN list[i] ELSE "undefined"

\* faulty variant: the value flag does not look at the next token
hasValue_Always(list, i) == TRUE

\* `&& argv[i + 1]`: the next token exists and is not the empty string
hasValue(list, i) == at(list, i + 1) \notin { "undefined", "" }

\* the option whose branch of the if-chain takes `arg` at i, "none" if none
branchOf(list, i) ==
    LET taken == { o \in Options :
                     /\ list[i] \in Forms[o]
                     /\ o \in ValueOptions => hasValue(list, i) }
    IN  IF taken = {} THEN "none" ELSE CHOOSE o \in taken : TRUE

\* the value a value option stores: parseInt(argv[++i], 10) or argv[++i]
stored(o, tok) == IF o \in { "width", "height" } THEN parseInt(tok) ELSE tok

\* the for loop of parseArgs from index i on, result being the Partial<Args>
RECURSIVE parseLoop(_, _, _)
parseLoop(list, i, result) ==
    IF i > Len(list) THEN result
    ELSE LET o == branchOf(list, i)
         IN  IF o = "none" THEN parseLoop(list, i + 1, result)
             ELSE IF o \in BoolOptions
             THEN parseLoop(list, i + 1, (o :> TRUE) @@ result)
             ELSE parseLoop(list, i + 2,
                            (o :> stored(o, at(list, i + 1))) @@ result)

\* parseArgs: the loop, then `result.x ?? default` per field
parseArgs(list) ==
    LET result == parseLoop(list, 1, << >>)
    IN  [ o \in Options |->
            IF o \in DOMAIN result THEN result[o] ELSE DefaultArgs[o] ]

\* a test calls parseArgs(argv)
ParseArgs ==
    /\ libPc = "parseArgs"
    /\ parsed' = parseArgs(argv)
    /\ libPc' = "parseArgs.done"
    /\ UNCHANGED << argv, tree, tsFound, tsFile, validation >>
    /\ UNCHANGED << runVars, pluginVars >>

\* sequences of at most n tokens
SeqUpTo(S, n) == UNION { [ 1..k -> S ] : k \in 0..n }

\* any argument list of at most MaxArgs tokens
InitParseArgs ==
    /\ libPc = "parseArgs"
    /\ argv \in SeqUpTo(Tokens, MaxArgs)
    /\ parsed = DefaultArgs
    /\ tree = << >>
    /\ tsFound = FALSE
    /\ tsFile = NoTsFile
    /\ validation = NoValidation
    /\ PluginIdle

\* directory entries that are no directory: name and whether isFile()
FileEntries ==
    { [ name |-> "app.ts", file |-> TRUE ], [ name |-> "app.tsx", file |-> TRUE ],
      [ name |-> "types.d.ts", file |-> TRUE ], [ name |-> "main.js", file |-> TRUE ],
      [ name |-> "sock.ts", file |-> FALSE ] }

\* entry.name.endsWith('.ts'), ('.tsx'), ('.d.ts')
endsWithTs(name) == name \in { "app.ts", "types.d.ts", "sock.ts" }
endsWithTsx(name) == name = "app.tsx"
endsWithDts(name) == name = "types.d.ts"

\* the tests an entry that is no directory has to pass for `return true`
isSource(e) ==
    /\ e.file
    /\ endsWithTs(e.name) \/ endsWithTsx(e.name)
    /\ ~endsWithDts(e.name)

\* the depth limit of the scan
maxScanDepth == 5

\* faulty variant: no depth limit
tooDeep_Never(depth) == FALSE

\* `if (depth > 5) return false`
tooDeep(depth) == depth > maxScanDepth

\* hasTypeScriptSource(dir, depth) for the directory tree[k]; its one
\* subdirectory, if any, is tree[k + 1]
RECURSIVE hasTypeScriptSource(_, _, _)
hasTypeScriptSource(t, k, depth) ==
    IF tooDeep(depth) THEN FALSE
    ELSE IF ~t[k].readable THEN FALSE
    ELSE \/ /\ k < Len(t)
            /\ t[k + 1].name \notin { "node_modules", ".git" }
            /\ hasTypeScriptSource(t, k + 1, depth + 1)
         \/ \E e \in t[k].entries : isSource(e)

\* a test calls hasTypeScriptSource(dir, 0)
ScanForTypeScript ==
    /\ libPc = "hasTypeScriptSource"
    /\ tsFound' = hasTypeScriptSource(tree, 1, 0)
    /\ libPc' = "hasTypeScriptSource.done"
    /\ UNCHANGED << argv, parsed, tree, tsFile, validation >>
    /\ UNCHANGED << runVars, pluginVars >>

\* directories nested up to MaxTreeDepth below the root; the innermost holds
\* any files, and at most one directory on the way is unreadable or is
\* named node_modules or .git
InitScan ==
    /\ libPc = "hasTypeScriptSource"
    /\ argv = << >>
    /\ parsed = DefaultArgs
    /\ tsFound = FALSE
    /\ tsFile = NoTsFile
    /\ validation = NoValidation
    /\ PluginIdle
    /\ \E n \in 1..(MaxTreeDepth + 1), es \in SUBSET FileEntries,
          j \in 0..(MaxTreeDepth + 1),
          how \in { "unreadable", "node_modules", ".git" } :
          /\ j <= n
          /\ tree = [ k \in 1..n |->
                       [ name |-> IF k = j /\ how # "unreadable" THEN how ELSE "src",
                         readable |-> ~(k = j /\ how = "unreadable"),
                         entries |-> IF k = n THEN es ELSE {} ] ]

\* keys compared without regard to case
CaseInsensitiveKeys == { "target", "module", "moduleResolution" }

\* faulty variant: every string option is compared without regard to case
isExpectedTsConfigValue_AnyKey(key, actual, expected) ==
    IF actual.t = "string" /\ expected.t = "string"
    THEN toLowerCase(actual.v) = toLowerCase(expected.v)
    ELSE actual = expected

\* isExpectedTsConfigValue: toLowerCase on both sides for two strings under
\* target / module / moduleResolution, `actual === expected` otherwise
isExpectedTsConfigValue(key, actual, expected) ==
    IF /\ actual.t = "string" /\ expected.t = "string"
       /\ key \in CaseInsensitiveKeys
    THEN toLowerCase(actual.v) = toLowerCase(expected.v)
    ELSE actual = expected

\* the entries validateExistingTsConfig pushes, named by the option or the
\* type they are about, in the order of the two loops
missingOf(f) ==
    LET types == IF f.types.array THEN f.types.items ELSE {}
        optionMissing(k) ==
            ~isExpectedTsConfigValue(k, f.compilerOptions[k],
                                     REQUIRED_TSCONFIG_OPTIONS[k])
        typeMissing(typeName) == typeName \notin types
    IN  SelectSeq(OptionKeys, optionMissing)
            \o SelectSeq(REQUIRED_TSCONFIG_TYPES, typeMissing)

\* validateExistingTsConfig: readFileSync or JSON.parse throws, or the
\* parsed value is null and reading its compilerOptions throws: ok false;
\* else ok true with the entries
validateExistingTsConfig(f) ==
    IF f.content \in { "unreadable", "invalid", "null" }
    THEN [ ok |-> FALSE, missing |-> << >> ]
    ELSE [ ok |-> TRUE, missing |-> missingOf(f) ]

\* runInit or a test calls validateExistingTsConfig(path)
ValidateTsConfig ==
    /\ libPc = "validateExistingTsConfig"
    /\ validation' = validateExistingTsConfig(tsFile)
    /\ libPc' = "validateExistingTsConfig.done"
    /\ UNCHANGED << argv, parsed, tree, tsFound, tsFile >>
    /\ UNCHANGED << runVars, pluginVars >>

\* values a tsconfig.json may give an option
OptionValues ==
    [ target |-> { Str("ESNext"), Str("esnext"), Str("ES2020"), Undefined },
      module |-> { Str("ESNext"), Str("ESNEXT"), Undefined },
      moduleResolution |-> { Str("Bundler"), Str("bundler"), Str("node") },
      jsx |-> { Str("react-jsx"), Str("React-JSX"), Undefined },
      noEmit |-> { Bool("true"), Bool("false"), Str("true"), Undefined },
      skipLibCheck |-> { Bool("true"), Undefined } ]

\* a file that cannot be read, is no JSON, is the JSON value null, or is an
\* object with any of these compilerOptions and types
InitValidate ==
    /\ libPc = "validateExistingTsConfig"
    /\ argv = << >>
    /\ parsed = DefaultArgs
    /\ tree = << >>
    /\ tsFound = FALSE
    /\ validation = NoValidation
    /\ PluginIdle
    /\ \/ tsFile \in { [ NoTsFile EXCEPT !.content = c ] :
                          c \in { "unreadable", "invalid", "null" } }
       \/ tsFile \in
             [ content : { "object" },
               compilerOptions :
                   { co \in [ DOMAIN REQUIRED_TSCONFIG_OPTIONS ->
                                UNION { OptionValues[k] :
                                          k \in DOMAIN REQUIRED_TSCONFIG_OPTIONS } ] :
                       \A k \in DOMAIN co : co[k] \in OptionValues[k] },
               types : { ty \in [ array : BOOLEAN,
                                  items : SUBSET { "node", "vite/client", "nw.js",
                                                   "Node" } ] :
                          ~ty.array => ty.items = {} } ]

\* VIRTUAL_PREFIX, and the prefix resolveId looks for. A module id is a
\* sequence of pieces; a string starts with a prefix when its first piece is
\* that prefix
VIRTUAL_PREFIX == "\\0windowd-node:"
NodeScheme == "node:"
IdPieces == { VIRTUAL_PREFIX, NodeScheme, "node", "fs", "nonexistent" }

\* id.startsWith(prefix), prefix + id, id.slice(prefix.length)
startsWith(id, prefix) == Len(id) >= 1 /\ id[1] = prefix
concat(prefix, id) == << prefix >> \o id
sliceAfterPrefix(id) == SubSeq(id, 2, Len(id))

\* resolveId: `if (id.startsWith('node:')) return VIRTUAL_PREFIX + id`
resolveId(id) ==
    IF startsWith(id, NodeScheme)
    THEN [ null |-> FALSE, id |-> concat(VIRTUAL_PREFIX, id) ]
    ELSE NullId

\* keys a module may have: identifiers, `default`, and one the regex rejects
ModuleKeys == { "readFileSync", "default", "defaultMaxListeners", "my-key" }

\* /^[a-zA-Z_$][a-zA-Z0-9_$]*$/.test(k)
isIdentifier(k) == k # "my-key"

\* _require(nodeSpecifier): the module's keys, or a throw (caught by load)
requireKeys(specifier, keys) ==
    IF specifier \in { << NodeScheme, "fs" >>, << "fs" >> }
    THEN [ found |-> TRUE, keys |-> keys ]
    ELSE [ found |-> FALSE, keys |-> {} ]

\* faulty variant: only the identifier test
exportable_AnyIdentifier(k) == isIdentifier(k)

\* the filter of the keys: `k !== 'default'` and the identifier test
exportable(k) == k # "default" /\ isIdentifier(k)

\* JSON.stringify(nodeSpecifier): a string literal of the source text
stringify(str) == [ literal |-> str ]

\* load: null for an id without the virtual prefix; else the source text:
\* its require function, the literal passed to it, `export default mod`,
\* and one `export const k` per exportable key (none when _require threw)
load(id, keys) ==
    IF ~startsWith(id, VIRTUAL_PREFIX) THEN NullSource
    ELSE LET nodeSpecifier == sliceAfterPrefix(id)
             mod == requireKeys(nodeSpecifier, keys)
         IN  [ null |-> FALSE,
               requireFn |-> "globalThis.require",
               specifier |-> stringify(nodeSpecifier),
               defaultExport |-> TRUE,
               named |-> { k \in mod.keys : exportable(k) } ]

\* the dev server (or a test) calls resolveId(id)
ResolveId ==
    /\ libPc = "resolveId"
    /\ resolvedId' = resolveId(moduleId)
    /\ libPc' = "resolveId.done"
    /\ UNCHANGED << moduleId, builtinKeys, loadedId, loaded >>
    /\ UNCHANGED << runVars, fnVars >>

\* load is called: by a test with any id, by the dev server with the id
\* resolveId returned
Load ==
    /\ \/ libPc = "load" /\ loadedId' = moduleId
       \/ libPc = "resolveId.done" /\ ~resolvedId.null
            /\ loadedId' = resolvedId.id
    /\ loaded' = load(loadedId', builtinKeys)
    /\ libPc' = "load.done"
    /\ UNCHANGED << moduleId, builtinKeys, resolvedId >>
    /\ UNCHANGED << runVars, fnVars >>

\* any id of at most MaxIdLen pieces, given to resolveId or straight to
\* load, and any keys of the module behind node:fs
InitPlugin ==
    /\ libPc \in { "resolveId", "load" }
    /\ FnIdle
    /\ moduleId \in SeqUpTo(IdPieces, MaxIdLen)
    /\ builtinKeys \in SUBSET ModuleKeys
    /\ resolvedId = NullId
    /\ loadedId = << >>
    /\ loaded = NullSource

\* the run itself stands still while the functions are called
InitLib ==
    /\ pc = "lib"
    /\ RunIdle
    /\ args = NoArgs
    /\ project = "unknown"
    /\ choice = "none"
    /\ scaffoldStatus = "none"
    /\ installStatus = "none"
    /\ ports = 0
    /\ UnitIdle
    /\ JsIdle
    /\ TsIdle
    /\ IconIdle
    /\ MergeIdle
    /\ \/ InitParseArgs
       \/ InitScan
       \/ InitValidate
       \/ InitPlugin

NextLib ==
    \/ ParseArgs
    \/ ScanForTypeScript
    \/ ValidateTsConfig
    \/ ResolveId
    \/ Load

\* the functions lib exports, each called once on an input of its own
SpecLib == InitLib /\ [][NextLib]_vars

\* ================================================================ claims

BusyCodes == {"EBUSY", "EPERM", "ENOTEMPTY"}

\* how the race settled, as openWindow must report it
raceOutcome == IF raceP = "rejected" THEN "rejected" ELSE "resolved"

\* ---- C1: if the close signal is the first event of the race, the race and
\* openWindow resolve, whatever the shell's later exit (code 0, non-zero, or
\* null after the teardown's SIGTERM); the late exit is never the error the
\* run ends with and does not change the exit code.
C1_SignalFirstResolves ==
    firstEvent = "signal" =>
        /\ raceP \in {"none", "resolved"}
        /\ owResult \in {"none", "resolved"}
        /\ owResult = "resolved" => err = "none"
        /\ pc = "exited" => thrown \notin {"shellExit", "spawn"}
        /\ (pc = "exited" /\ owResult = "resolved" /\ thrown # "configRm")
              => exitCode = "0"

\* C1 witness: signal first, the shell's exit with a null code (SIGTERM) was
\* observed after the race had settled, and the run ended with code 0
C1_Witness ==
    /\ pc = "exited" /\ firstEvent = "signal" /\ lateExit
    /\ nwExitCode = "null" /\ nwSignals = 1 /\ exitCode = "0"

\* ---- C2: for every outcome of the race the teardown block runs exactly
\* once (listener stopped, shell signalled, both directories' deletion
\* attempted), and when openWindow settles the shell is not left running
\* unsignalled.
C2_TeardownExactlyOnce ==
    /\ teardowns <= 1
    /\ pc = "race" => teardowns = 0
    /\ (raceP \in {"resolved", "rejected"} /\ pc \in {"mainTail", "exited"})
          => teardowns = 1
    /\ (teardowns = 1) = (owResult # "none")
    /\ owResult # "none" =>
          /\ cs = "stopped"
          /\ hostRm # "none" /\ profileRm # "none"
          /\ nw \in {"exited", "spawnFailed"} \/ nwSignals = 1
    /\ nwSignals <= 1

\* C2 witness: the close signal won, the shell was still running and got its
\* SIGTERM in the one teardown
C2_Witness ==
    /\ owResult = "resolved" /\ teardowns = 1 /\ nw = "running"
    /\ nwSignals = 1 /\ cs = "stopped"

\* ---- C3 (as claimed): on every path by which the run ends after the dev
\* server was spawned (window closed, readiness budget exhausted, bundle
\* generation failed, shell exited with an error), the dev server was sent a
\* termination signal (or had already ended) before the CLI process ends.
C3_DevServerStopped ==
    (/\ pc = "exited" /\ vite # "none"
     /\ err \in {"none", "viteNotReady", "bundle", "shellExit"})
        => (viteSignals >= 1 \/ vite = "exited")

\* ---- C4: `closed` is resolved at most once, by the first signal, and
\* never rejects; every signal, first or later, is answered and its socket
\* ended.
C4_ClosedResolvesOnce ==
    /\ resolveCalls <= 1
    /\ closedP # "rejected"
    /\ (closedP = "resolved") = (resolveCalls = 1)
    /\ (closedP = "resolved") = (\E s \in Sockets : sock[s] = "ended")
    /\ resolved = (closedP = "resolved")
    /\ answered = {s \in Sockets : sock[s] = "ended"}

\* C4 witness: two signals were handled, one resolution
C4_Witness ==
    /\ Cardinality({s \in Sockets : sock[s] = "ended"}) >= 2
    /\ Cardinality(answered) >= 2
    /\ resolveCalls = 1

\* ---- C5 (as claimed): while no probe has been answered with a status
\* < 500, waitForServer never issues more than maxAttempts probes, and it
\* rejects with exactly maxAttempts probes issued.
C5_ProbeBudget ==
    ~okSeen =>
        /\ attempts <= maxAttempts
        /\ wfs = "rejected" => attempts = maxAttempts

\* ---- C6: the bundle is generated and the shell spawned only after a probe
\* was answered with a status < 500 and waitForServer resolved; if readiness
\* is not reached there is no bundle and no shell.
C6_ReadyBeforeBundle ==
    /\ (hostDir # "none" \/ userDataDir # "none" \/ nw # "none"
          \/ pc \in {"csPort", "csListen", "launch", "race"})
          => (okSeen /\ wfs = "resolved")
    /\ wfs \in {"pending", "rejected"} =>
          (hostDir = "none" /\ userDataDir = "none" /\ nw = "none")

\* C6 witness: the shell runs on a generated bundle, readiness was reached
C6_Witness ==
    /\ nw = "running" /\ hostDir = "created" /\ userDataDir = "created"
    /\ okSeen /\ wfs = "resolved"

\* ---- C7: a failed deletion of the bundle or profile directory never
\* leaves openWindow (openWindow settles as the race did), the second
\* deletion is attempted whatever the first did, and when the race ended
\* successfully the run ends with code 0.
C7_CleanupNeverPropagates ==
    /\ owResult # "none" =>
          /\ owResult = raceOutcome
          /\ err # "cleanup"
          /\ hostRm # "none" /\ profileRm # "none"
    /\ (pc = "exited" /\ owResult = "resolved" /\ thrown # "configRm")
          => (exitCode = "0" /\ thrown = "none")
    /\ thrown # "cleanup"

\* C7 witness: both deletions failed, the first with an unlisted error, and
\* the run ended with code 0
C7_Witness ==
    /\ pc = "exited" /\ exitCode = "0"
    /\ hostRm = "EIO" /\ profileRm = "EBUSY"

\* ---- C8 (as claimed): a failure to delete the augmented config directory
\* is never fatal: the run ends with code 0 if the phases succeeded, and
\* with the original error if they failed.
C8_ConfigCleanupNeverFatal ==
    (pc = "exited" /\ rmConfigCalls > 0) =>
        /\ thrown = err
        /\ err = "none" => exitCode = "0"

C10_ConfigRemovalOnce ==
    /\ rmConfigCalls <= 1
    /\ (pc = "exited" /\ tryEntered) => rmConfigCalls = 1
    /\ rmConfigCalls = 1 => (tryEntered /\ pc = "exited")
    /\ tryEntered => viteConfig # "none"

\* C10 witness: the shell exited with an error and the removal still ran
C10_Witness ==
    /\ pc = "exited" /\ err = "shellExit" /\ rmConfigCalls = 1
    /\ viteConfig = "removed"

\* no port acquired, no dev server and no shell spawned
NothingStarted ==
    /\ ports = 0
    /\ vite = "none"
    /\ nw = "none"

\* C13: when the shell's exit is the first event of the race, a non-zero code
\* or a signal (code null) makes openWindow fail with the error that carries
\* the code and the signal, and the CLI ends with a non-zero exit code; code 0
\* makes openWindow resolve and the CLI end with exit code 0.
C13_ShellExitDecides ==
    /\ (firstEvent = "exit" /\ nwExitCode # "0" /\ owResult # "none")
          => (owResult = "rejected" /\ err = "shellExit")
    /\ (firstEvent = "exit" /\ nwExitCode # "0" /\ pc = "exited")
          => exitCode = "1"
    /\ (firstEvent = "exit" /\ nwExitCode = "0" /\ owResult # "none")
          => owResult = "resolved"
    /\ (firstEvent = "exit" /\ nwExitCode = "0" /\ pc = "exited")
          => exitCode = "0"

\* C15: once `bun create vite` or `bun install` has returned a non-zero
\* status, the process has exited with a non-zero code and nothing of the
\* run flow (port, dev server, shell) was started.
C15_ScaffoldFailureAborts ==
    (scaffoldStatus = "1" \/ installStatus = "1")
        => (exitCode = "1" /\ NothingStarted)

\* C16: when the user picks Exit at the no-project prompt the process exits
\* with code 0; no scaffold was run, no port acquired, no dev server and no
\* shell spawned.
C16_PromptExitIsClean ==
    choice = "exit"
        => (exitCode = "0" /\ scaffoldStatus = "none" /\ installStatus = "none"
            /\ NothingStarted)

C16_Witness ==
    /\ choice = "exit"
    /\ project = "absent"
    /\ pc = "exited"

descriptorWritten == windowConfig # "none"

\* the title the written descriptor carries in window.title
descriptorTitle ==
    IF manifest["window"] = "windowd" THEN windowConfig ELSE "userManifest"

\* the coordinator itself defines key k of the descriptor in this run
coordinatorDefines(k) ==
    \/ baseManifest(nwConfig, args.debug)[k] = "windowd"
    \/ k = "inject_js_start" /\ appLogPath(args)

\* C11: in the written descriptor the bundle name, the entry URL and the
\* privileged-entry script path carry the coordinator's values whatever the
\* user's override object holds, and exactly one warning was printed for each
\* of these keys the user tried to set (none for the others).
C11_ProtectedKeysKept ==
    descriptorWritten =>
        \A k \in ManifestKeys :
            /\ k \in { "name", "main", "node-main" } => manifest[k] = "windowd"
            /\ manifestWarnings[k] =
                  IF k \in { "name", "main", "node-main" } /\ k \in nwConfig.manifest
                  THEN 1 ELSE 0

C11_Witness ==
    /\ descriptorWritten
    /\ nwConfig.manifest = { "name", "window" }
    /\ manifestWarnings["name"] = 1
    /\ manifest["name"] = "windowd"
    /\ manifest["window"] = "user"

C18_TitlePrecedence ==
    descriptorWritten =>
        descriptorTitle =
            IF args.title THEN "flag"
            ELSE IF pkg.readable /\ "windowd.title" \in pkg.fields THEN "windowd.title"
            ELSE IF pkg.readable /\ "displayName" \in pkg.fields THEN "displayName"
            ELSE IF pkg.readable /\ "name" \in pkg.fields THEN "name"
            ELSE IF htmlTitle THEN "html"
            ELSE "dirname"

\* C19: the generated dev-server config points cacheDir at the temp-rooted
\* cache directory, also when the user's config defines cacheDir.
C19_CacheDirRedirected ==
    cacheDir # "none" => cacheDir = "temp"

\* C20: in capture mode, once the script waits for the window, it never comes
\* to rest before the shell has stopped itself and the CLI's open-window
\* phase has settled: whenever no step of the script, the shell or the CLI is
\* left, openWindow has settled.
C20_CaptureTerminates ==
    (captureDir(args, choice) /\ js \notin { "none", "noApi" }
        /\ ~ENABLED NextCapture)
        => owResult # "none"

\* the window is open outside capture mode and nothing has begun to close it
windowOpen ==
    /\ ~captureDir(args, choice)
    /\ js = "idle"
    /\ closePosts = 0
    /\ unloading \in { "none", "reload" }

\* C21: outside capture mode, while the window is open and neither the user
\* has closed it nor the shell has exited, no shutdown signal was sent, the
\* open-window phase has not ended and the shell was not sent a signal: a
\* page reload or navigation changes none of this.
C21_ReloadKeepsSession ==
    windowOpen =>
        /\ signalCloseCalls = 0
        /\ pc = "race"
        /\ nwSignals = 0

\* C28: when createNwHostApp has thrown, the error leaves openWindow only
\* with the close-signal listener stopped and no bundle or profile directory
\* left on disk.
C28_BundleFailureReleases ==
    err = "bundle" =>
        /\ cs = "stopped"
        /\ hostDir # "created"
        /\ userDataDir # "created"

\* C29: for one close of the window the script calls signalClose(), that is
\* sends the shutdown POST, at most once, whichever of beforeunload, unload,
\* the native close and window-all-closed fire for it.
C29_OnePostPerClose == closePosts <= 1

\* C30: the close-signal promise is resolved as soon as a connection to the
\* listener exists, whether the peer has sent bytes or not.
C30_ResolvedOnConnection ==
    \A s \in Sockets : sock[s] # "unused" => closedP = "resolved"

\* C23: a normal run (project found, no --init) creates tsconfig.json exactly
\* when there was none and TypeScript sources were detected, and no step of
\* the CLI (run, scaffold, --init) changes a tsconfig.json that exists.
C23_TsConfigOnlyWhenNeeded ==
    [][ /\ tsconfig # "absent" => tsconfig' = tsconfig
        /\ (pc = "main" /\ ~mainInit(args) /\ project' = "present") =>
              IF tsconfig = "absent" /\ tsSources
              THEN tsconfig' = "created"
              ELSE tsconfig' = tsconfig ]_vars

\* a normal run found TypeScript sources and no tsconfig.json and wrote one
C23_Witness ==
    /\ project = "present"
    /\ choice = "none"
    /\ tsSources
    /\ tsconfig = "created"
    /\ pc = "getPort"

\* the favicon link is one the claim lets through: present, no data: URL, no
\* remote URL, a supported extension, an existing file
linkAccepted ==
    /\ iconIn.link # NoLink
    /\ iconIn.link.scheme = "local"
    /\ iconIn.link.ext \in { ".png", ".PNG" }
    /\ iconIn.link.exists

\* the first favicon of a directory in the order ico, png, jpg
firstFavicon(present) ==
    IF "favicon.ico" \in present THEN "favicon.ico"
    ELSE IF "favicon.png" \in present THEN "favicon.png"
    ELSE "favicon.jpg"

\* the same name under public/
underPublic(name) ==
    IF name = "favicon.ico" THEN "public/favicon.ico"
    ELSE IF name = "favicon.png" THEN "public/favicon.png"
    ELSE "public/favicon.jpg"

\* C22: the icon of the window is the config's window.icon if set; else the
\* accepted favicon link of index.html; else favicon.ico, .png or .jpg of the
\* project root; else the same of public/; else the bundled default. A failed
\* copy leaves the descriptor without an injected icon, and the bundle is
\* generated all the same.
C22_IconResolutionOrder ==
    icon # "none" =>
        /\ pc = "unitDone" /\ err = "none" /\ descriptorWritten
        /\ icon = IF iconIn.config THEN "config"
                  ELSE IF ~iconIn.copy THEN "absent"
                  ELSE IF linkAccepted THEN "link"
                  ELSE IF iconIn.root # {} THEN firstFavicon(iconIn.root)
                  ELSE IF iconIn.public # {}
                  THEN underPublic(firstFavicon(iconIn.public))
                  ELSE "default"

\* a remote favicon link is passed over, the root holds no favicon, and the
\* icon is the first of the two that lie in public/
C22_Witness ==
    /\ iconIn.link.scheme = "http"
    /\ iconIn.root = {}
    /\ iconIn.public = { "favicon.png", "favicon.jpg" }
    /\ icon = "public/favicon.png"

\* the token at i is read as a flag, not consumed as the value of the value
\* flag before it
RECURSIVE flagPosition(_, _)
flagPosition(list, i) ==
    \/ i = 1
    \/ /\ i > 1
       /\ ~ ( /\ flagPosition(list, i - 1)
              /\ list[i - 1] \in UNION { Forms[o] : o \in ValueOptions }
              /\ list[i] # "" )

\* where option o is given: a form of it in flag position, and for a value
\* option a value after it
given(list, o) ==
    { i \in 1..Len(list) :
        /\ list[i] \in Forms[o]
        /\ flagPosition(list, i)
        /\ o \in ValueOptions => (i < Len(list) /\ list[i + 1] # "") }

\* the list with every short flag replaced by the long one
longForm(list) ==
    [ i \in 1..Len(list) |->
        IF ~flagPosition(list, i) THEN list[i]
        ELSE IF list[i] = "-v" THEN "--version" ELSE IF list[i] = "-h" THEN "--help"
        ELSE IF list[i] = "-d" THEN "--debug" ELSE IF list[i] = "-i" THEN "--init"
        ELSE IF list[i] = "-W" THEN "--width" ELSE IF list[i] = "-H" THEN "--height"
        ELSE IF list[i] = "-t" THEN "--title" ELSE list[i] ]

\* what the last occurrence of value option o carries
lastValue(list, o) ==
    LET i == CHOOSE j \in given(list, o) : \A k \in given(list, o) : k <= j
    IN  IF o \in { "width", "height" } THEN parseInt(list[i + 1]) ELSE list[i + 1]

\* C24: for every argument list parseArgs returns the default of each option
\* no token names; long and short forms give the same result; a value flag
\* that is the last token is ignored; and every flag given, in whatever order
\* and combination, is recognised: a boolean flag sets its option, a value
\* flag stores the token after it (the last one given wins).
C24_ParseArgs ==
    libPc = "parseArgs.done" =>
        /\ \A o \in Options :
              (\A i \in 1..Len(argv) : argv[i] \notin Forms[o])
                  => parsed[o] = DefaultArgs[o]
        /\ parsed = parseArgs(longForm(argv))
        /\ \A o \in ValueOptions :
              (Len(argv) > 0 /\ argv[Len(argv)] \in Forms[o]
                  /\ flagPosition(argv, Len(argv)))
                  => parsed = parseArgs(SubSeq(argv, 1, Len(argv) - 1))
        /\ \A o \in BoolOptions :
              parsed[o] = (given(argv, o) # {})
        /\ \A o \in ValueOptions :
              parsed[o] = IF given(argv, o) = {} THEN DefaultArgs[o]
                          ELSE lastValue(argv, o)

\* a short and a long flag around a value flag with its value
C24_Witness ==
    /\ libPc = "parseArgs.done"
    /\ argv = << "-d", "--width", "640" >>
    /\ parsed.debug /\ parsed.width = Num(640) /\ parsed.height = Num(defaultHeight)

\* directory k of the tree holds a regular file ending in .ts or .tsx that
\* is no .d.ts file
holdsSource(k) ==
    \E e \in tree[k].entries :
        /\ e.file
        /\ e.name \in { "app.ts", "app.tsx" }

\* directory k lies under (or is) a node_modules or .git directory below
\* the scanned one
underSkipped(k) ==
    \E j \in 2..k : tree[j].name \in { "node_modules", ".git" }

\* C25: hasTypeScriptSource(dir, 0) is true exactly when a regular .ts or
\* .tsx file that is no .d.ts file lies in dir or in a subdirectory at most
\* five levels below it that is not under node_modules or .git and can be
\* read; deeper files, .d.ts files and unreadable directories never make it
\* true.
C25_TypeScriptDetected ==
    libPc = "hasTypeScriptSource.done" =>
        ( tsFound <=>
            \E k \in 1..Len(tree) :
                /\ k - 1 <= 5
                /\ holdsSource(k)
                /\ ~underSkipped(k)
                /\ \A j \in 1..k : tree[j].readable )

\* a source file exactly five levels below the scanned directory is found
C25_Witness ==
    /\ libPc = "hasTypeScriptSource.done"
    /\ Len(tree) = 6
    /\ holdsSource(6)
    /\ tsFound

\* option k of the file has the expected value: whatever the case for
\* target, module and moduleResolution, strictly equal otherwise
conforms(k) ==
    LET actual == tsFile.compilerOptions[k]
        expected == REQUIRED_TSCONFIG_OPTIONS[k]
    IN  IF k \in { "target", "module", "moduleResolution" }
        THEN /\ actual.t = "string"
             /\ toLowerCase(actual.v) = toLowerCase(expected.v)
        ELSE actual = expected

\* the deviations of the file: options without the expected value, required
\* types its types list lacks
deviations ==
    { k \in DOMAIN REQUIRED_TSCONFIG_OPTIONS : ~conforms(k) }
        \cup { ty \in { "node", "vite/client", "nw.js" } :
                  ~(tsFile.types.array /\ ty \in tsFile.types.items) }

\* C26: validateExistingTsConfig returns ok true with an empty missing list
\* exactly when every required option has the expected value and the types
\* list includes every required type; ok true with one entry per deviation
\* otherwise; and ok false when the file cannot be read or parsed.
C26_TsConfigValidation ==
    libPc = "validateExistingTsConfig.done" =>
        IF tsFile.content # "object"
        THEN ~validation.ok
        ELSE /\ validation.ok
             /\ { validation.missing[i] : i \in 1..Len(validation.missing) }
                    = deviations
             /\ Len(validation.missing) = Cardinality(deviations)
             /\ validation.missing = << >> <=>
                    /\ \A k \in DOMAIN REQUIRED_TSCONFIG_OPTIONS : conforms(k)
                    /\ tsFile.types.array
                    /\ { "node", "vite/client", "nw.js" } \subseteq tsFile.types.items

\* lower-case target, wrong-case jsx and a types list without nw.js: two
\* entries, none for target
C26_Witness ==
    /\ libPc = "validateExistingTsConfig.done"
    /\ tsFile.content = "object"
    /\ tsFile.compilerOptions["target"] = Str("esnext")
    /\ tsFile.compilerOptions["jsx"] = Str("React-JSX")
    /\ validation.ok
    /\ validation.missing = << "jsx", "nw.js" >>

\* C27: resolveId maps an id to the virtual prefix followed by the id exactly
\* when the id starts with `node:`, and to null otherwise; load returns null
\* for an id without the virtual prefix, and for every id with it, whether
\* the module exists or not, a source text that takes the module from
\* globalThis.require with the original specifier and has a default export
\* and no `export const default`.
C27_NodeBuiltinsPlugin ==
    /\ libPc = "resolveId.done" =>
          IF Len(moduleId) > 0 /\ moduleId[1] = "node:"
          THEN resolvedId = [ null |-> FALSE,
                              id |-> << VIRTUAL_PREFIX >> \o moduleId ]
          ELSE resolvedId.null
    /\ libPc = "load.done" =>
          IF Len(loadedId) = 0 \/ loadedId[1] # VIRTUAL_PREFIX
          THEN loaded.null
          ELSE /\ ~loaded.null
               /\ loaded.requireFn = "globalThis.require"
               /\ << VIRTUAL_PREFIX >> \o loaded.specifier.literal = loadedId
               /\ ~resolvedId.null => loaded.specifier.literal = moduleId
               /\ loaded.defaultExport
               /\ "default" \notin loaded.named

\* node:nonexistent resolved and loaded: a source text without named exports
C27_Witness ==
    /\ libPc = "load.done"
    /\ moduleId = << "node:", "nonexistent" >>
    /\ ~resolvedId.null
    /\ ~loaded.null
    /\ loaded.defaultExport
    /\ loaded.named = {}
    /\ "default" \in builtinKeys

\* what the text of a rejection of waitForServer carries: the template
\* `Vite at ${url} never responded` interpolates the probed URL, the template
\* `Vite not ready after ${maxAttempts} attempts` the attempt budget
namesUrl(message) == message = "Vite at url never responded"
namesAttempts(message) == message = "Vite not ready after maxAttempts attempts"

\* C31: whenever readiness polling has exhausted its attempt budget (last
\* probe answered with status >= 500, or failed with a connection error or
\* timeout), the error it rejects with identifies both the probed URL and the
\* number of attempts made.
C31_ErrorNamesUrlAndAttempts ==
    wfs = "rejected" => namesUrl(wfsError) /\ namesAttempts(wfsError)

\* C38: waitForServer keeps at most one probe in flight or scheduled at any
\* time, and none once it has settled: one probe request triggers at most
\* one follow-up attempt, even if it delivers both a response with status
\* >= 500 and a later error or timeout, so two retry chains never coexist.
C38_SingleProbeChain ==
    /\ inflight + timers <= 1
    /\ wfs # "pending" => inflight + timers = 0

\* the steps taken so far that `order` names, as they were taken
taken(order) ==
    LET named(s) == \E k \in 1..Len(order) : order[k] = s
    IN  SelectSeq(steps, named)

\* the steps of `order` were taken in that order, each once and none
\* without the one before it; the removal of the augmented config also
\* ends the runs that failed earlier, so it may follow any of them
inOrder(order) ==
    LET t == taken(order)
        n == Len(t)
    IN  \/ t = SubSeq(order, 1, n)
        \/ /\ n > 0
           /\ t = SubSeq(order, 1, n - 1) \o << "removeConfig" >>

\* the run ended with exit code 0 after the dev server and the shell phase
completed == pc = "exited" /\ tryEntered /\ thrown = "none"

\* the order of the RUNNING phase as claimed: the augmented dev-config is
\* generated once the dev server is ready
ClaimedOrder ==
    << "port", "spawnVite", "ready", "config", "bundle", "spawnNw", "settled",
       "stopVite", "removeConfig" >>

\* the same steps with the augmented dev-config generated before the dev
\* server is started
CodeOrder ==
    << "port", "config", "spawnVite", "ready", "bundle", "spawnNw", "settled",
       "stopVite", "removeConfig" >>

\* C32 (as claimed): within RUNNING the order is: acquire the port, start
\* the dev server and await readiness, generate the augmented dev-config,
\* generate the shell bundle, open the shell and await its close, stop the
\* dev server, remove the augmented dev-config's directory.
C32_OrderAsClaimed ==
    /\ inOrder(ClaimedOrder)
    /\ completed => taken(ClaimedOrder) = ClaimedOrder

\* C32 (amended): the order is: acquire the port, generate the augmented
\* dev-config, start the dev server with it and await readiness, generate
\* the shell bundle, open the shell and await its close, stop the dev
\* server, remove the augmented dev-config's directory; a run that exits
\* with code 0 has taken every one of these steps.
C32_RunOrder ==
    /\ inOrder(CodeOrder)
    /\ completed => taken(CodeOrder) = CodeOrder

\* C32 witness: a run that took all the steps and exited with code 0
C32_Witness ==
    /\ completed
    /\ exitCode = "0"
    /\ taken(CodeOrder) = CodeOrder

\* openWindow's teardown followed by main's stopVite
TeardownOrder ==
    << "settled", "closeSignal.stop", "nw.kill", "cleanupHost", "cleanupProfile",
       "stopVite" >>

\* openWindow has been called and has not settled
openWindowPending ==
    pc \in { "csPort", "csListen", "launch", "race" } /\ owResult = "none"

\* C33: the close-signal channel is stopped and the shell subprocess is
\* signalled before either of the shell's temp directories is removed, and
\* the dev server is stopped only after openWindow has fully settled, its
\* teardown included, never while the open-window phase is pending.
C33_TeardownOrder ==
    /\ LET t == taken(TeardownOrder)
       IN  t = SubSeq(TeardownOrder, 1, Len(t))
    /\ (hostDir = "removed" \/ userDataDir = "removed") =>
          /\ cs = "stopped"
          /\ nw = "running" => nwSignals = 1
    /\ openWindowPending => viteSignals = 0
    /\ viteSignals > 0 => owResult = "resolved" /\ teardowns = 1

\* C33 witness: the page signalled the close first; the channel was stopped,
\* the running shell signalled, both directories removed, then the dev
\* server stopped
C33_Witness ==
    /\ completed
    /\ firstEvent = "signal"
    /\ nw = "running" /\ nwSignals = 1
    /\ hostDir = "removed" /\ userDataDir = "removed"
    /\ vite = "running" /\ viteSignals = 1
    /\ taken(TeardownOrder) = TeardownOrder

\* C34: after a successful template scaffold the run launches with the same
\* resolved options as a run in an existing project given the same inputs:
\* the title is --title if given, else the auto-detected one, and the
\* capture target is the one given with --capture.
C34_ScaffoldSameLaunch ==
    (choice # "none" /\ title # "none") =>
        /\ title = mainTitle(args, pkg, htmlTitle)
        /\ captureDir(args, choice) = args.capture

\* C35: getEphemeralPort resolves with a port only after its throwaway
\* listener has been fully closed, so no listener of its own is held on the
\* port when the caller binds it (the dev server is spawned, the close-signal
\* listener listens); a bind failure rejects at once, is not retried, and
\* ends the run with a failure.
C35_PortAfterClose ==
    [][ /\ ports' = ports + 1 => probe = "closed"
        /\ (vite = "none" /\ vite' = "running") => probe = "closed"
        /\ (cs = "none" /\ cs' = "listening") => probe = "closed"
        /\ probe = "failed" => probe' = "failed"
        /\ (probe # "failed" /\ probe' = "failed") =>
              /\ pc' \in { "exited", "mainTail" }
              /\ ports' = ports
        /\ (probe' = "failed" /\ pc' = "exited") => exitCode' = "1"
      ]_vars

\* C35 witness: both calls (main's and createCloseSignalServer's) resolved,
\* each with its listener closed, and both callers are bound
C35_Witness ==
    /\ ports = 2
    /\ probe = "closed"
    /\ vite = "running" /\ portHolder = "vite"
    /\ cs = "listening"

\* x is an entry of the list
holds(list, x) == \E i \in 1..Len(list) : list[i] = x

\* whose replacement an import of `dep` gets from the exported alias list:
\* vite hands the entries to its alias plugin, which applies the first entry
\* whose `find` matches
effectiveAlias(dep) ==
    LET matching(e) == e.find = dep
    IN  SelectSeq(mergeOut.alias, matching)[1].by

\* C36: in the exported dev-config the synthesized values never displace the
\* user's: fs.allow holds the project directory, its parent and every entry
\* of the user's allow list; the plugin list holds the node-builtins plugin
\* and every plugin of the user; for an alias defined both as a fallback and
\* by the user, in object or array form, the user's alias takes effect.
C36_UserValuesKept ==
    (pc = "unitDone" /\ mergeOut # NoExport) =>
        /\ holds(mergeOut.allow, "projectDir")
        /\ holds(mergeOut.allow, "parentDir")
        /\ \A i \in 1..Len(mergeIn.allow.list) :
              holds(mergeOut.allow, mergeIn.allow.list[i])
        /\ holds(mergeOut.plugins, "windowThisNodeBuiltins")
        /\ \A i \in 1..Len(mergeIn.plugins.list) :
              holds(mergeOut.plugins, mergeIn.plugins.list[i])
        /\ \A d \in mergeIn.fallback \cap mergeIn.alias.keys :
              effectiveAlias(d) = "user"

\* C37: the close-signal listener is bound and accepting before the shell
\* is spawned and stays so until openWindow's teardown stops it: while the
\* open-window phase lasts, a connection is accepted and its data handled,
\* so no signal is lost for lack of a listener.
C37_ListenerCoversShell ==
    /\ LET t == taken(<< "closeSignal", "bundle", "spawnNw" >>)
       IN  t = SubSeq(<< "closeSignal", "bundle", "spawnNw" >>, 1, Len(t))
    /\ nw # "none" => cs = (IF teardowns = 0 THEN "listening" ELSE "stopped")
    /\ (pc = "race" /\ teardowns = 0) =>
          \A s \in Sockets :
              /\ (sock[s] = "unused" /\ \A t \in Sockets : t < s => sock[t] # "unused")
                    => ENABLED Connect(s)
              /\ sock[s] = "open" => ENABLED SocketData(s)

\* C37 witness: the shell runs, the listener has accepted a connection and
\* handled its signal, and the teardown has not run yet
C37_Witness ==
    /\ pc = "race" /\ teardowns = 0
    /\ nw = "running"
    /\ cs = "listening"
    /\ \E s \in Sockets : sock[s] = "ended"
    /\ closedP = "resolved"

\* C39: when startVite returns, the dev-server subprocess it spawned is
\* still running and is the process that answered the readiness probe on
\* the allocated port: readiness is never declared on a response of another
\* process that bound the port between its release and the dev server's
\* bind, nor after the subprocess has already exited.
C39_ReadyMeansOwnServer ==
    [][ /\ (wfs = "pending" /\ wfs' = "resolved") =>
              (vite = "running" /\ readyBy' = "vite")
        /\ (pc = "waitForServer" /\ pc' = "csPort") =>
              (vite = "running" /\ readyBy = "vite")
      ]_vars

====
